---- MODULE Spec2Model ----
(***************************************************************************)
(* Chunked authenticated streaming codec of package encdec: the Writer     *)
(* (Write / Close / flush), the Reader (Read / readChunk), the nonce       *)
(* counter, and the container that carries the frames from one to the      *)
(* other.                                                                  *)
(*                                                                         *)
(* ChaCha20-Poly1305 is modelled as an ideal cipher: a ciphertext byte     *)
(* names the seal it came from and its own position in the frame, so that  *)
(* Open accepts a byte string exactly when it is Seal(key, nonce, pt) for  *)
(* some pt sealed before (no forgery, no collision).                       *)
(***************************************************************************)
EXTENDS Integers, Sequences, FiniteSets, TLC

\* ------------------------------------------------------------------ bounds
MaxChunk == 2
MaxPlain == 3
MaxWrite == 2
MaxRead == 3

\* Values a plaintext byte takes in the model.
Bytes == {0, 1}
\* Bytes a failing write to the sink may still have pushed through.
PartialWrites == {0, 1}

\* ------------------------------------------------------- program constants
Overhead == 16
NonceSize == 12
ByteRange == 256

Nil == "nil"
EOF == "EOF"
ErrClosed == "operation on closed writer"
ErrOverflow == "chunk counter overflowed"
ErrOpen == "chacha20poly1305: message authentication failed"
ErrSink == "sink write failed"
ErrSource == "source read failed"

\* ----------------------------------------------------------------- helpers
SeqsUpTo(S, n) == UNION {[1..k -> S] : k \in 0..n}

Drop(s, n) == SubSeq(s, n + 1, Len(s))

Take(s, n) == SubSeq(s, 1, n)

IsPrefix(s, t) == Len(s) <= Len(t) /\ Take(t, Len(s)) = s

RECURSIVE Sum(_)
Sum(s) == IF Len(s) = 0 THEN 0 ELSE Head(s) + Sum(Tail(s))

\* min that gives its second argument.
min_second(x, y) == y

min(x, y) == IF x < y THEN x ELSE y

\* ------------------------------------------------------------- header text
\* Text is a sequence of one-character strings.
DigitChars == <<"0", "1", "2", "3", "4", "5", "6", "7", "8", "9">>

Base64Chars ==
    <<"A", "B", "C", "D", "E", "F", "G", "H", "I", "J", "K", "L", "M",
      "N", "O", "P", "Q", "R", "S", "T", "U", "V", "W", "X", "Y", "Z",
      "a", "b", "c", "d", "e", "f", "g", "h", "i", "j", "k", "l", "m",
      "n", "o", "p", "q", "r", "s", "t", "u", "v", "w", "x", "y", "z",
      "0", "1", "2", "3", "4", "5", "6", "7", "8", "9", "+", "/">>

IsDigit(c) == \E i \in 1..10 : DigitChars[i] = c

DigitValue(c) == (CHOOSE i \in 1..10 : DigitChars[i] = c) - 1

IsBase64(c) == \E i \in 1..64 : Base64Chars[i] = c

Base64Value(c) == (CHOOSE i \in 1..64 : Base64Chars[i] = c) - 1

\* strings.Split(s, sep) for a one-character separator: the texts between
\* one separator and the next, the two ends of s counting as separators.
Split(s, sep) ==
    LET at == {i \in 1..Len(s) : s[i] = sep}
        n == Cardinality(at)
        pos(k) == IF k = 0 THEN 0
                  ELSE IF k = n + 1 THEN Len(s) + 1
                  ELSE CHOOSE i \in at : Cardinality({j \in at : j < i}) = k - 1
    IN  [k \in 1..(n + 1) |-> SubSeq(s, pos(k - 1) + 1, pos(k) - 1)]

\* fmt's %d of a value >= 0.
RECURSIVE FormatUint(_)
FormatUint(n) ==
    IF n < 10 THEN <<DigitChars[n + 1]>>
    ELSE Append(FormatUint(n \div 10), DigitChars[(n % 10) + 1])

RECURSIVE StripZeros(_)
StripZeros(s) ==
    IF Len(s) > 1 /\ Head(s) = "0" THEN StripZeros(Tail(s)) ELSE s

\* s <= t for two digit strings without leading zeros.
RECURSIVE DigitsLeq(_, _)
DigitsLeq(s, t) ==
    IF Len(s) # Len(t) THEN Len(s) < Len(t)
    ELSE IF Len(s) = 0 THEN TRUE
    ELSE IF Head(s) # Head(t) THEN DigitValue(Head(s)) < DigitValue(Head(t))
    ELSE DigitsLeq(Tail(s), Tail(t))

RECURSIVE DigitsValue(_, _)
DigitsValue(s, acc) ==
    IF Len(s) = 0 THEN acc
    ELSE DigitsValue(Tail(s), acc * 10 + DigitValue(Head(s)))

\* Largest value of an unsigned integer of bitSize bits, in digits.
MaxUintDigits(bitSize) ==
    IF bitSize = 8 THEN <<"2", "5", "5">>
    ELSE IF bitSize = 32
    THEN <<"4", "2", "9", "4", "9", "6", "7", "2", "9", "5">>
    ELSE <<"9", "2", "2", "3", "3", "7", "2", "0", "3", "6",
           "8", "5", "4", "7", "7", "5", "8", "0", "7">>

\* Values of ten digits and more are in range for 32 and 64 bits and have
\* no value here: Huge stands for them.
Huge == 10 ^ 9

\* strconv.ParseUint(s, 10, bitSize); bitSize 63 gives the range of the
\* non-negative int64.
ParseUint(s, bitSize) ==
    IF Len(s) = 0 \/ \E i \in 1..Len(s) : ~IsDigit(s[i])
    THEN [err |-> TRUE, val |-> 0]
    ELSE LET d == StripZeros(s)
         IN  IF ~DigitsLeq(d, MaxUintDigits(bitSize))
             THEN [err |-> TRUE, val |-> 0]
             ELSE [err |-> FALSE,
                   val |-> IF Len(d) > 9 THEN Huge ELSE DigitsValue(d, 0)]

\* strconv.ParseInt(s, 10, 64): a sign, then digits. -2^63 is in range and
\* is below zero like every value with a minus sign but -0.
ParseInt(s) ==
    IF Len(s) = 0 THEN [err |-> TRUE, val |-> 0]
    ELSE LET neg == Head(s) = "-"
             rest == IF Head(s) = "-" \/ Head(s) = "+" THEN Tail(s) ELSE s
             u == ParseUint(rest, 63)
             minInt == rest # <<>> /\ (\A i \in 1..Len(rest) : IsDigit(rest[i]))
                       /\ StripZeros(rest) =
                            <<"9", "2", "2", "3", "3", "7", "2", "0", "3", "6",
                              "8", "5", "4", "7", "7", "5", "8", "0", "8">>
         IN  IF neg /\ minInt THEN [err |-> FALSE, val |-> 0 - Huge]
             ELSE IF u.err THEN u
             ELSE [err |-> FALSE, val |-> IF neg THEN 0 - u.val ELSE u.val]

\* base64.RawStdEncoding.EncodeToString: character j holds bits 6(j-1) to
\* 6j-1 of b, zeros after the last byte.
EncodeToString(b) ==
    LET byte(a) == IF a <= Len(b) THEN b[a] ELSE 0
        sextet(j) ==
            LET a == (6 * (j - 1)) \div 8 + 1
                o == (6 * (j - 1)) % 8
            IN  ((byte(a) * ByteRange + byte(a + 1)) \div (2 ^ (10 - o))) % 64
    IN  [j \in 1..((4 * Len(b) + 2) \div 3) |-> Base64Chars[sextet(j) + 1]]

\* The bytes of the sextets v: byte i holds bits 8(i-1) to 8i-1; the bits
\* left over in the last sextet are dropped whatever they are (the encoding
\* is not Strict).
DecodeSextets(v) ==
    LET byte(i) ==
            LET a == (8 * (i - 1)) \div 6 + 1
                o == (8 * (i - 1)) % 6
            IN  ((v[a] * 64 + v[a + 1]) \div (2 ^ (4 - o))) % ByteRange
    IN  [i \in 1..((6 * Len(v)) \div 8) |-> byte(i)]

\* base64.RawStdEncoding.DecodeString: carriage returns and line feeds are
\* skipped, any other character outside the alphabet is an error, and so is
\* a last group of one character.
DecodeString(s) ==
    LET t == SelectSeq(s, LAMBDA c : c # "\r" /\ c # "\n")
    IN  IF (\E i \in 1..Len(t) : ~IsBase64(t[i])) \/ Len(t) % 4 = 1
        THEN [err |-> TRUE, bytes |-> <<>>]
        ELSE [err |-> FALSE,
              bytes |-> DecodeSextets([i \in 1..Len(t) |-> Base64Value(t[i])])]

\* ------------------------------------------------------------------- Params
ArgonVersion == 19
ArgonType == <<"a", "r", "g", "o", "n", "2", "i", "d">>
SaltSize == 16
ArgonTime == 1
ArgonMemory == 2097152
ArgonThreads == 4
ChunkSize == 65536

MaxSaltLen == 256

\* Header errors are sets of kinds: a wrapped error matches each of its kinds.
NoError == {}
ErrNilParams == {"NilParams"}
ErrParsing == {"Parsing"}
ErrArgonType == {"ArgonType"}
ErrArgonVersion == {"ArgonVersion"}
ErrArgonTime == {"ArgonTime"}
ErrArgonMemory == {"ArgonMemory"}
ErrArgonThreads == {"ArgonThreads"}
ErrSalt == {"Salt"}
ErrSaltSize == {"SaltSize"}
ErrChunkSize == {"ChunkSize"}
ErrEndOfInput == {"EOF"}

\* A salt is nil or a byte string (which may be empty).
NilSalt == [nil |-> TRUE, bytes |-> <<>>]

SaltOf(b) == [nil |-> FALSE, bytes |-> b]

\* The zero value of Params.
ZeroParams ==
    [ArgonVersion |-> 0, ArgonType |-> <<>>, SaltSize |-> 0, Salt |-> NilSalt,
     ArgonTime |-> 0, ArgonMemory |-> 0, ArgonThreads |-> 0, ChunkSize |-> 0]

\* The fields Check looks at after the salt.
CheckCosts(p) ==
    LET p1 == IF p.ArgonTime = 0 THEN [p EXCEPT !.ArgonTime = ArgonTime] ELSE p
        p2 == IF p1.ArgonMemory = 0
              THEN [p1 EXCEPT !.ArgonMemory = ArgonMemory] ELSE p1
        p3 == IF p2.ArgonThreads = 0
              THEN [p2 EXCEPT !.ArgonThreads = ArgonThreads] ELSE p2
    IN  IF p3.ChunkSize = 0
        THEN [p |-> [p3 EXCEPT !.ChunkSize = ChunkSize], err |-> NoError]
        ELSE IF p3.ChunkSize < 0 THEN [p |-> p3, err |-> ErrChunkSize]
        ELSE [p |-> p3, err |-> NoError]

\* The salt and the fields after it. uint8(len(p.Salt)) wraps at 256.
CheckSalt(p) ==
    IF ~p.Salt.nil
    THEN IF Len(p.Salt.bytes) > MaxSaltLen THEN [p |-> p, err |-> ErrSalt]
         ELSE IF p.SaltSize # 0 /\ p.SaltSize # Len(p.Salt.bytes)
         THEN [p |-> p, err |-> ErrSaltSize]
         ELSE CheckCosts([p EXCEPT !.SaltSize = Len(p.Salt.bytes) % ByteRange])
    ELSE IF p.SaltSize = 0 THEN CheckCosts([p EXCEPT !.SaltSize = SaltSize])
    ELSE CheckCosts(p)

\* Check that goes through every field before it rejects the type.
Check_lateReject(p) ==
    LET badType == p.ArgonType # <<>> /\ p.ArgonType # ArgonType
        p1 == IF p.ArgonType = <<>> THEN [p EXCEPT !.ArgonType = ArgonType]
              ELSE p
    IN  IF p1.ArgonVersion # 0 /\ p1.ArgonVersion # ArgonVersion
        THEN [p |-> p1,
              err |-> IF badType THEN ErrArgonType ELSE ErrArgonVersion]
        ELSE LET c == CheckSalt(IF p1.ArgonVersion = 0
                                THEN [p1 EXCEPT !.ArgonVersion = ArgonVersion]
                                ELSE p1)
             IN  IF badType THEN [p |-> c.p, err |-> ErrArgonType] ELSE c

Check(p) ==
    IF p.ArgonType # <<>> /\ p.ArgonType # ArgonType
    THEN [p |-> p, err |-> ErrArgonType]
    ELSE LET p1 == IF p.ArgonType = <<>>
                   THEN [p EXCEPT !.ArgonType = ArgonType] ELSE p
         IN  IF p1.ArgonVersion # 0 /\ p1.ArgonVersion # ArgonVersion
             THEN [p |-> p1, err |-> ErrArgonVersion]
             ELSE CheckSalt(IF p1.ArgonVersion = 0
                            THEN [p1 EXCEPT !.ArgonVersion = ArgonVersion]
                            ELSE p1)

\* The check NewWriter, NewReader and Key run on their parameters.
checkFormatted(p) == Check(p)

MarshalHeader(p) ==
    LET c == Check(p)
    IN  IF c.err # NoError THEN [p |-> c.p, err |-> c.err, bytes |-> <<>>]
        ELSE [p |-> c.p, err |-> NoError,
              bytes |-> <<"$">> \o c.p.ArgonType
                        \o <<"$", "v", "=">> \o FormatUint(c.p.ArgonVersion)
                        \o <<"$", "t", "=">> \o FormatUint(c.p.ArgonTime)
                        \o <<",", "m", "=">> \o FormatUint(c.p.ArgonMemory)
                        \o <<",", "p", "=">> \o FormatUint(c.p.ArgonThreads)
                        \o <<"$", "s", "=">> \o EncodeToString(c.p.Salt.bytes)
                        \o <<"$", "b", "=">> \o FormatUint(c.p.ChunkSize)
                        \o <<"\n">>]

\* UintField giving the field's own kind when the key is not there.
UintField_keyAsKind(text, key, bitSize, kind) ==
    LET subValues == Split(text, "=")
    IN  IF Len(subValues) # 2 \/ subValues[1] # <<key>>
        THEN [err |-> kind, val |-> 0]
        ELSE LET u == ParseUint(subValues[2], bitSize)
             IN  IF u.err THEN [err |-> ErrParsing \cup kind, val |-> 0]
                 ELSE IF u.val = 0 THEN [err |-> kind, val |-> 0]
                 ELSE [err |-> NoError, val |-> u.val]

\* One "key=value" part of the header: the kinds of its failure, or no
\* error and the value.
UintField(text, key, bitSize, kind) ==
    LET subValues == Split(text, "=")
    IN  IF Len(subValues) # 2 \/ subValues[1] # <<key>>
        THEN [err |-> ErrParsing, val |-> 0]
        ELSE LET u == ParseUint(subValues[2], bitSize)
             IN  IF u.err THEN [err |-> ErrParsing \cup kind, val |-> 0]
                 ELSE IF u.val = 0 THEN [err |-> kind, val |-> 0]
                 ELSE [err |-> NoError, val |-> u.val]

parseArgonParams(params, value) ==
    LET values == Split(value, ",")
    IN  IF Len(values) # 3 THEN [p |-> params, err |-> ErrParsing]
        ELSE LET t == UintField(values[1], "t", 32, ErrArgonTime)
                 m == UintField(values[2], "m", 32, ErrArgonMemory)
                 th == UintField(values[3], "p", 8, ErrArgonThreads)
                 p1 == [params EXCEPT !.ArgonTime = t.val]
                 p2 == [p1 EXCEPT !.ArgonMemory = m.val]
             IN  IF t.err # NoError THEN [p |-> params, err |-> t.err]
                 ELSE IF m.err # NoError THEN [p |-> p1, err |-> m.err]
                 ELSE IF th.err # NoError THEN [p |-> p2, err |-> th.err]
                 ELSE [p |-> [p2 EXCEPT !.ArgonThreads = th.val],
                       err |-> NoError]

\* ReadString that takes all the source holds with the line.
ReadString_all(text) ==
    IF \E i \in 1..Len(text) : text[i] = "\n"
    THEN LET k == CHOOSE i \in 1..Len(text) :
                    text[i] = "\n" /\ \A j \in 1..(i - 1) : text[j] # "\n"
         IN  [line |-> Take(text, k), rest |-> <<>>, err |-> NoError]
    ELSE [line |-> text, rest |-> <<>>, err |-> ErrEndOfInput]

\* src.ReadString('\n') on the text the source holds: the line with its
\* line feed, or all of the text and an error when there is none.
ReadString(text) ==
    IF \E i \in 1..Len(text) : text[i] = "\n"
    THEN LET k == CHOOSE i \in 1..Len(text) :
                    text[i] = "\n" /\ \A j \in 1..(i - 1) : text[j] # "\n"
         IN  [line |-> Take(text, k), rest |-> Drop(text, k), err |-> NoError]
    ELSE [line |-> text, rest |-> <<>>, err |-> ErrEndOfInput]

\* The salt and chunk-size fields of ParseHeader and its closing Check.
ParseSaltAndChunk(params, saltText, chunkText) ==
    LET sv == Split(saltText, "=")
        bv == Split(chunkText, "=")
    IN  IF Len(sv) # 2 \/ sv[1] # <<"s">>
        THEN [nil |-> TRUE, p |-> params, err |-> ErrParsing]
        ELSE LET d == DecodeString(sv[2])
                 p1 == [params EXCEPT !.Salt = SaltOf(d.bytes)]
             IN  IF d.err
                 THEN [nil |-> TRUE, p |-> params,
                       err |-> ErrParsing \cup ErrSalt]
                 ELSE IF Len(d.bytes) = 0
                 THEN [nil |-> TRUE, p |-> p1, err |-> ErrSalt]
                 ELSE IF Len(bv) # 2 \/ bv[1] # <<"b">>
                 THEN [nil |-> TRUE, p |-> p1, err |-> ErrParsing]
                 ELSE LET i == ParseInt(bv[2])
                      IN  IF i.err
                          THEN [nil |-> TRUE, p |-> p1,
                                err |-> ErrParsing \cup ErrChunkSize]
                          ELSE IF i.val <= 0
                          THEN [nil |-> TRUE, p |-> p1, err |-> ErrChunkSize]
                          ELSE LET c == Check([p1 EXCEPT !.ChunkSize = i.val])
                               IN  [nil |-> FALSE, p |-> c.p, err |-> c.err]

\* text: what the source holds. nil: whether the *Params returned is nil;
\* rest: what the source holds afterwards.
ParseHeader(text) ==
    LET rd == ReadString(text)
        line == Take(rd.line, Len(rd.line) - 1)
        args == Split(line, "$")
        fail(e) == [nil |-> TRUE, p |-> ZeroParams, err |-> e, rest |-> rd.rest]
    IN  IF rd.err # NoError THEN fail(ErrParsing \cup rd.err)
        ELSE IF Len(args) # 6 \/ args[1] # <<>> THEN fail(ErrParsing)
        ELSE IF Len(args[2]) = 0 THEN fail(ErrArgonType)
        ELSE LET p0 == [ZeroParams EXCEPT !.ArgonType = args[2]]
                 v == UintField(args[3], "v", 8, ErrArgonVersion)
             IN  IF v.err # NoError THEN fail(v.err)
                 ELSE LET a == parseArgonParams(
                                 [p0 EXCEPT !.ArgonVersion = v.val], args[4])
                      IN  IF a.err # NoError THEN fail(a.err)
                          ELSE LET sc == ParseSaltAndChunk(a.p, args[5], args[6])
                               IN  [nil |-> sc.nil, p |-> sc.p, err |-> sc.err,
                                    rest |-> rd.rest]

\* argon2.IDKey: a key for each password, salt and cost, no two alike.
IDKey(password, salt, time, memory, threads) ==
    <<password, salt, time, memory, threads>>

\* What random(n) returns: n bytes from the system's generator, or its error.
ErrRandom == {"generating salt"}

RandomOk(buff) == [buff |-> buff, err |-> NoError]

RandomFailed(n) == [buff |-> [i \in 1..n |-> 0], err |-> ErrRandom]

\* rd: what random(params.SaltSize) returns if Key calls it.
Key(password, params, rd) ==
    LET c == checkFormatted(params)
    IN  IF c.err # NoError THEN [key |-> <<>>, p |-> c.p, err |-> c.err]
        ELSE IF c.p.Salt.nil /\ rd.err # NoError
        THEN [key |-> <<>>, p |-> c.p, err |-> rd.err]
        ELSE LET p1 == IF c.p.Salt.nil
                       THEN [c.p EXCEPT !.Salt = SaltOf(rd.buff)] ELSE c.p
             IN  [key |-> IDKey(password, p1.Salt.bytes, p1.ArgonTime,
                                p1.ArgonMemory, p1.ArgonThreads),
                  p |-> p1, err |-> NoError]

\* ------------------------------------------------------------ nonce counter
ZeroNonce == [i \in 1..NonceSize |-> 0]

RECURSIVE incNonceFrom(_, _)
incNonceFrom(nonce, i) ==
    LET b == (nonce[i] + 1) % ByteRange
        bumped == [nonce EXCEPT ![i] = b]
    IN  IF b # 0 THEN [nonce |-> bumped, err |-> Nil]
        ELSE IF i = 1 THEN [nonce |-> bumped, err |-> ErrOverflow]
        ELSE incNonceFrom(bumped, i - 1)

\* incNonce that wraps to zero without a word.
incNonce_wrap(nonce) ==
    [nonce |-> incNonceFrom(nonce, Len(nonce)).nonce, err |-> Nil]

\* incNonce that adds one to the last byte and carries nothing.
incNonce_noCarry(nonce) ==
    LET b == (nonce[Len(nonce)] + 1) % ByteRange
    IN  [nonce |-> [nonce EXCEPT ![Len(nonce)] = b],
         err |-> IF b = 0 THEN ErrOverflow ELSE Nil]

incNonce(nonce) ==
    IF Len(nonce) = 0 THEN [nonce |-> nonce, err |-> Nil]
    ELSE incNonceFrom(nonce, Len(nonce))

\* --------------------------------------------------------------------- AEAD
\* ChaCha20-Poly1305 as an ideal cipher. seals lists the (key, nonce,
\* plaintext) sealed so far; the ciphertext of entry id is the bytes
\* CipherByte(id, 1) .. CipherByte(id, len(plaintext) + 16). Sealing the same
\* input again gives the same bytes, and no other byte string opens.
Stride == MaxChunk + Overhead + 1

CipherByte(id, i) == id * Stride + i

\* A byte value no seal gives out.
Garbage == CipherByte(0, 0)

Ciphertext(id, plaintext) ==
    [i \in 1..(Len(plaintext) + Overhead) |-> CipherByte(id, i)]

Seal(seals, key, nonce, plaintext) ==
    LET entry == [key |-> key, nonce |-> nonce, plaintext |-> plaintext]
        known == {k \in 1..Len(seals) : seals[k] = entry}
        id == IF known = {} THEN Len(seals) + 1 ELSE CHOOSE k \in known : TRUE
    IN  [seals |-> IF known = {} THEN Append(seals, entry) ELSE seals,
         ciphertext |-> Ciphertext(id, plaintext)]

\* Open that does not look at the nonce.
Open_anyNonce(seals, key, nonce, ciphertext) ==
    IF Len(ciphertext) < Overhead THEN [err |-> ErrOpen, plaintext |-> <<>>]
    ELSE LET id == ciphertext[1] \div Stride
         IN  IF /\ id \in 1..Len(seals)
                /\ seals[id].key = key
                /\ ciphertext = Ciphertext(id, seals[id].plaintext)
             THEN [err |-> Nil, plaintext |-> seals[id].plaintext]
             ELSE [err |-> ErrOpen, plaintext |-> <<>>]

Open(seals, key, nonce, ciphertext) ==
    IF Len(ciphertext) < Overhead THEN [err |-> ErrOpen, plaintext |-> <<>>]
    ELSE LET id == ciphertext[1] \div Stride
         IN  IF /\ id \in 1..Len(seals)
                /\ seals[id].key = key
                /\ seals[id].nonce = nonce
                /\ ciphertext = Ciphertext(id, seals[id].plaintext)
             THEN [err |-> Nil, plaintext |-> seals[id].plaintext]
             ELSE [err |-> ErrOpen, plaintext |-> <<>>]

\* ------------------------------------------------------------------- Writer
NewWriter(key, chunkSize) ==
    [chunkSize |-> chunkSize, key |-> key, nonce |-> ZeroNonce,
     buff |-> <<>>, err |-> Nil]

\* The sink and the cipher as a Writer finds them: the bytes the sink holds,
\* the lengths of the frames it took, the seals made.
NewSink == [dst |-> <<>>, frames |-> <<>>, seals |-> <<>>]

\* flush with the nonce left as it was.
flush_noInc(w, io, fail, part) ==
    LET s == Seal(io.seals, w.key, w.nonce, w.buff)
    IN  IF fail
        THEN [w |-> [w EXCEPT !.buff = Take(s.ciphertext, Len(w.buff))],
              io |-> [io EXCEPT !.dst = @ \o Take(s.ciphertext, part),
                                !.seals = s.seals],
              err |-> ErrSink]
        ELSE [w |-> [w EXCEPT !.buff = <<>>],
              io |-> [dst |-> io.dst \o s.ciphertext,
                      frames |-> Append(io.frames, Len(s.ciphertext)),
                      seals |-> s.seals],
              err |-> Nil]

\* w: the Writer, io: sink and cipher, fail: whether dst.Write fails, part:
\* the bytes a failing dst.Write still pushed. Seal works in place, so after
\* a failed dst.Write the buffer holds ciphertext bytes.
flush(w, io, fail, part) ==
    LET s == Seal(io.seals, w.key, w.nonce, w.buff)
    IN  IF fail
        THEN [w |-> [w EXCEPT !.buff = Take(s.ciphertext, Len(w.buff))],
              io |-> [io EXCEPT !.dst = @ \o Take(s.ciphertext, part),
                                !.seals = s.seals],
              err |-> ErrSink]
        ELSE LET inc == incNonce(w.nonce)
             IN  [w |-> [w EXCEPT !.buff = <<>>, !.nonce = inc.nonce],
                  io |-> [dst |-> io.dst \o s.ciphertext,
                          frames |-> Append(io.frames, Len(s.ciphertext)),
                          seals |-> s.seals],
                  err |-> inc.err]

\* The loop of Write. failAt = 1: the next dst.Write fails.
RECURSIVE WriteLoop(_, _, _, _, _)
WriteLoop(w, io, p, failAt, part) ==
    IF Len(p) = 0 THEN [w |-> w, io |-> io, err |-> Nil]
    ELSE LET size == min(w.chunkSize - Len(w.buff), Len(p))
             w1 == [w EXCEPT !.buff = @ \o Take(p, size)]
         IN  IF Len(w1.buff) = w.chunkSize
             THEN LET f == flush(w1, io, failAt = 1, part)
                  IN  IF f.err # Nil
                      THEN [w |-> [f.w EXCEPT !.err = f.err], io |-> f.io,
                            err |-> f.err]
                      ELSE WriteLoop(f.w, f.io, Drop(p, size), failAt - 1, part)
             ELSE WriteLoop(w1, io, Drop(p, size), failAt, part)

\* Write that returns len(p) when a flush failed, too.
Write_lenOnError(w, io, p, failAt, part) ==
    IF w.err # Nil THEN [w |-> w, io |-> io, n |-> 0, err |-> w.err]
    ELSE LET res == WriteLoop(w, io, p, failAt, part)
         IN  [w |-> res.w, io |-> res.io, n |-> Len(p), err |-> res.err]

\* Write that does not look at the latched error.
Write_noLatch(w, io, p, failAt, part) ==
    LET res == WriteLoop(w, io, p, failAt, part)
    IN  [w |-> res.w, io |-> res.io,
         n |-> IF res.err = Nil THEN Len(p) ELSE 0, err |-> res.err]

Write(w, io, p, failAt, part) ==
    IF w.err # Nil THEN [w |-> w, io |-> io, n |-> 0, err |-> w.err]
    ELSE LET res == WriteLoop(w, io, p, failAt, part)
         IN  [w |-> res.w, io |-> res.io,
              n |-> IF res.err = Nil THEN Len(p) ELSE 0, err |-> res.err]

\* Close that does not look at the latched error.
Close_noLatch(w, io, fail, part) ==
    LET f == flush(w, io, fail, part)
    IN  IF f.err # Nil
        THEN [w |-> [f.w EXCEPT !.err = f.err], io |-> f.io, err |-> f.err]
        ELSE [w |-> [f.w EXCEPT !.err = ErrClosed], io |-> f.io, err |-> Nil]

\* Close that marks the Writer closed without the final flush.
Close_noFlush(w, io, fail, part) ==
    IF w.err # Nil THEN [w |-> w, io |-> io, err |-> w.err]
    ELSE [w |-> [w EXCEPT !.err = ErrClosed], io |-> io, err |-> Nil]

\* Close that sends no frame when the buffer is empty.
Close_skipEmpty(w, io, fail, part) ==
    IF w.err # Nil THEN [w |-> w, io |-> io, err |-> w.err]
    ELSE IF Len(w.buff) = 0
    THEN [w |-> [w EXCEPT !.err = ErrClosed], io |-> io, err |-> Nil]
    ELSE LET f == flush(w, io, fail, part)
         IN  IF f.err # Nil
             THEN [w |-> [f.w EXCEPT !.err = f.err], io |-> f.io,
                   err |-> f.err]
             ELSE [w |-> [f.w EXCEPT !.err = ErrClosed], io |-> f.io,
                   err |-> Nil]

Close(w, io, fail, part) ==
    IF w.err # Nil THEN [w |-> w, io |-> io, err |-> w.err]
    ELSE LET f == flush(w, io, fail, part)
         IN  IF f.err # Nil
             THEN [w |-> [f.w EXCEPT !.err = f.err], io |-> f.io,
                   err |-> f.err]
             ELSE [w |-> [f.w EXCEPT !.err = ErrClosed], io |-> f.io,
                   err |-> Nil]

\* ------------------------------------------------------------------- Reader
NewReader(key, chunkSize) ==
    [chunkSize |-> chunkSize, key |-> key, nonce |-> ZeroNonce,
     buff |-> <<>>, lastChunk |-> FALSE, err |-> Nil]

\* The upstream source of a Reader: the bytes it still holds, whether it ends
\* with an error of its own instead of io.EOF, the seals the cipher knows,
\* and, for the record, the calls of io.CopyN made on it and whether one of
\* them came back short.
NewSource(data, bad, seals) ==
    [data |-> data, bad |-> bad, seals |-> seals, copies |-> 0,
     short |-> FALSE]

\* io.CopyN(&r.buff, r.src, n)
CopyN(s, n) ==
    IF Len(s.data) >= n
    THEN [got |-> Take(s.data, n),
          src |-> [s EXCEPT !.data = Drop(@, n), !.copies = @ + 1],
          err |-> Nil]
    ELSE [got |-> s.data,
          src |-> [s EXCEPT !.data = <<>>, !.copies = @ + 1, !.short = TRUE],
          err |-> IF s.bad THEN ErrSource ELSE EOF]

\* readChunk that leaves the nonce as it was.
readChunk_noInc(r, s) ==
    LET c == CopyN(s, r.chunkSize + Overhead)
        r1 == [r EXCEPT !.buff = c.got]
    IN  IF c.err # Nil /\ c.err # EOF
        THEN [r |-> r1, src |-> c.src, last |-> FALSE, err |-> c.err]
        ELSE LET o == Open(s.seals, r.key, r.nonce, r1.buff)
             IN  IF o.err # Nil
                 THEN [r |-> r1, src |-> c.src, last |-> FALSE, err |-> o.err]
                 ELSE [r |-> [r1 EXCEPT !.buff = o.plaintext],
                       src |-> c.src,
                       last |-> \/ c.err = EOF
                                \/ Len(c.got) < r.chunkSize + Overhead,
                       err |-> Nil]

\* readChunk that goes on after a frame that failed to open.
readChunk_ignoreOpen(r, s) ==
    LET c == CopyN(s, r.chunkSize + Overhead)
        r1 == [r EXCEPT !.buff = c.got]
    IN  IF c.err # Nil /\ c.err # EOF
        THEN [r |-> r1, src |-> c.src, last |-> FALSE, err |-> c.err]
        ELSE LET o == Open(s.seals, r.key, r.nonce, r1.buff)
                 inc == incNonce(r.nonce)
             IN  [r |-> [r1 EXCEPT !.buff = o.plaintext, !.nonce = inc.nonce],
                  src |-> c.src,
                  last |-> /\ inc.err = Nil
                           /\ \/ c.err = EOF
                              \/ Len(c.got) < r.chunkSize + Overhead,
                  err |-> inc.err]

\* readChunk that takes an empty read at the end of the source for the end of
\* the stream.
readChunk_emptyIsEnd(r, s) ==
    LET c == CopyN(s, r.chunkSize + Overhead)
        r1 == [r EXCEPT !.buff = c.got]
    IN  IF c.err # Nil /\ c.err # EOF
        THEN [r |-> r1, src |-> c.src, last |-> FALSE, err |-> c.err]
        ELSE IF c.err = EOF /\ Len(c.got) = 0
        THEN [r |-> r1, src |-> c.src, last |-> TRUE, err |-> Nil]
        ELSE LET o == Open(s.seals, r.key, r.nonce, r1.buff)
                 inc == incNonce(r.nonce)
             IN  IF o.err # Nil
                 THEN [r |-> r1, src |-> c.src, last |-> FALSE, err |-> o.err]
                 ELSE [r |-> [r1 EXCEPT !.buff = o.plaintext,
                                        !.nonce = inc.nonce],
                       src |-> c.src,
                       last |-> /\ inc.err = Nil
                                /\ \/ c.err = EOF
                                   \/ Len(c.got) < r.chunkSize + Overhead,
                       err |-> inc.err]

\* r: the Reader, s: the upstream source. A frame that fails to open leaves
\* the bytes read in the buffer.
readChunk(r, s) ==
    LET c == CopyN(s, r.chunkSize + Overhead)
        r1 == [r EXCEPT !.buff = c.got]
    IN  IF c.err # Nil /\ c.err # EOF
        THEN [r |-> r1, src |-> c.src, last |-> FALSE, err |-> c.err]
        ELSE LET o == Open(s.seals, r.key, r.nonce, r1.buff)
                 inc == incNonce(r.nonce)
             IN  IF o.err # Nil
                 THEN [r |-> r1, src |-> c.src, last |-> FALSE, err |-> o.err]
                 ELSE [r |-> [r1 EXCEPT !.buff = o.plaintext,
                                        !.nonce = inc.nonce],
                       src |-> c.src,
                       last |-> /\ inc.err = Nil
                                /\ \/ c.err = EOF
                                   \/ Len(c.got) < r.chunkSize + Overhead,
                       err |-> inc.err]

\* The loop of Read. plen: the room left in p, got: the bytes copied into p
\* so far.
RECURSIVE ReadLoop(_, _, _, _)
ReadLoop(r, s, plen, got) ==
    IF plen = 0
    THEN [r |-> r, src |-> s, n |-> Len(got), data |-> got, err |-> Nil]
    ELSE IF Len(r.buff) = 0 /\ r.lastChunk
    THEN [r |-> [r EXCEPT !.err = EOF], src |-> s, n |-> Len(got),
          data |-> got, err |-> IF Len(got) = 0 THEN EOF ELSE Nil]
    ELSE LET c == IF Len(r.buff) = 0 THEN readChunk(r, s)
                  ELSE [r |-> r, src |-> s, last |-> r.lastChunk, err |-> Nil]
         IN  IF c.err # Nil
             THEN [r |-> [c.r EXCEPT !.err = c.err], src |-> c.src, n |-> 0,
                   data |-> <<>>, err |-> c.err]
             ELSE LET r2 == [c.r EXCEPT !.lastChunk = c.last]
                      n == min(Len(r2.buff), plen)
                  IN  ReadLoop([r2 EXCEPT !.buff = Drop(@, n)], c.src,
                               plen - n, got \o Take(r2.buff, n))

\* Read that does not look at the latched error.
Read_noLatch(r, s, plen) == ReadLoop(r, s, plen, <<>>)

\* Read that does not keep what readChunk says about the last chunk.
Read_forgetLast(r, s, plen) ==
    IF r.err # Nil
    THEN [r |-> r, src |-> s, n |-> 0, data |-> <<>>, err |-> r.err]
    ELSE LET res == ReadLoop(r, s, plen, <<>>)
         IN  [res EXCEPT !.r = [@ EXCEPT !.lastChunk = FALSE]]

\* Read that returns once the plaintext of one frame is used up.
Read_oneChunk(r, s, plen) ==
    IF r.err # Nil
    THEN [r |-> r, src |-> s, n |-> 0, data |-> <<>>, err |-> r.err]
    ELSE ReadLoop(r, s,
                  min(plen, IF Len(r.buff) > 0 THEN Len(r.buff) ELSE r.chunkSize),
                  <<>>)

Read(r, s, plen) ==
    IF r.err # Nil
    THEN [r |-> r, src |-> s, n |-> 0, data |-> <<>>, err |-> r.err]
    ELSE ReadLoop(r, s, plen, <<>>)

\* ------------------------------------------------------------ state machine
VARIABLES
    params,     \* the parameters the container was sealed under
    header,     \* the header line written in front of the frames
    w,          \* the Writer
    sink,       \* the Writer's sink, with the cipher's seals
    plain,      \* the bytes of the Write calls that returned no error
    wret,       \* what the last Write or Close returned
    phase,      \* "writing", "reading", or "rejected" (no Reader was made)
    attack,     \* what happened to the container on its way to the Reader
    perr,       \* the error of ParseHeader or Key on the way to the Reader
    src,        \* the Reader's upstream source
    r,          \* the Reader
    out,        \* the bytes Read has returned, in order
    rret,       \* what the last Read returned, and whether it found an
                \* error latched
    call,       \* the last call of a function of the package made on its
                \* own: its name, its input and what it returned
    pipe,       \* the run of process (Encrypt or Decrypt of parallel.go):
                \* its three goroutines, channels, buffers and context
    cw          \* the Writer of package crypto, which holds the header, with
                \* its sink and what its last call returned

vars == <<params, header, w, sink, plain, wret, phase, attack, perr, src, r,
          out, rret, call, pipe, cw>>

writerVars == <<w, sink, plain, wret>>

readerVars == <<src, r, out, rret>>

Password == "password"

\* The salts random() hands out.
Salts == {<<7>>}

NoAttack == [kind |-> "none", at |-> 0]

NoCall == [op |-> "none", in |-> <<>>, out |-> <<>>]

\* process has not been called.
NoPipe == [mode |-> "none"]

\* No Writer of package crypto has been made.
NoCryptoWriter == [made |-> FALSE]

\* cmd/encdec encrypt: Key on the caller's parameters, MarshalHeader,
\* NewWriter. The caller picks the chunk size and the salt size.
Init ==
    \E cs \in 1..MaxChunk, rnd \in Salts :
        LET k == Key(Password,
                     [ZeroParams EXCEPT !.ChunkSize = cs, !.SaltSize = Len(rnd)],
                     RandomOk(rnd))
        IN  /\ params = k.p
            /\ header = MarshalHeader(k.p).bytes
            /\ w = NewWriter(k.key, k.p.ChunkSize)
            /\ sink = NewSink
            /\ plain = <<>>
            /\ wret = [op |-> "none", plen |-> 0, n |-> 0, err |-> Nil]
            /\ phase = "writing"
            /\ attack = NoAttack
            /\ perr = NoError
            /\ src = NewSource(<<>>, FALSE, <<>>)
            /\ r = NewReader(k.key, k.p.ChunkSize)
            /\ out = <<>>
            /\ rret = [plen |-> 0, n |-> 0, err |-> Nil, latched |-> FALSE]
            /\ call = NoCall
            /\ pipe = NoPipe
            /\ cw = NoCryptoWriter

CallWrite(p, failAt, part) ==
    /\ phase = "writing"
    /\ Len(plain) + Len(p) <= MaxPlain
    /\ LET res == Write(w, sink, p, failAt, part)
       IN  /\ w' = res.w
           /\ sink' = res.io
           /\ plain' = IF res.err = Nil THEN plain \o p ELSE plain
           /\ wret' = [op |-> "Write", plen |-> Len(p), n |-> res.n,
                       err |-> res.err]
    /\ UNCHANGED <<params, header, phase, attack, perr, call, pipe, cw>>
    /\ UNCHANGED readerVars

CallClose(fail, part) ==
    /\ phase = "writing"
    /\ LET res == Close(w, sink, fail, part)
       IN  /\ w' = res.w
           /\ sink' = res.io
           /\ wret' = [op |-> "Close", plen |-> 0, n |-> 0, err |-> res.err]
    /\ UNCHANGED <<params, header, plain, phase, attack, perr, call, pipe, cw>>
    /\ UNCHANGED readerVars

\* cmd/encdec decrypt up to the copy loop: ParseHeader on the container,
\* Key with the same password, NewReader over what follows the header.
\* ph: what ParseHeader returned, body: the bytes after the header line.
OpenContainer(ph, body, how) ==
    LET k == Key(Password, ph.p, RandomOk(<<>>))
    IN  /\ attack' = how
        /\ IF ph.err # NoError \/ k.err # NoError
           THEN /\ phase' = "rejected"
                /\ perr' = IF ph.err # NoError THEN ph.err ELSE k.err
                /\ UNCHANGED <<src, r>>
           ELSE /\ phase' = "reading"
                /\ perr' = NoError
                /\ src' = NewSource(body, FALSE, sink.seals)
                /\ r' = NewReader(k.key, ph.p.ChunkSize)
        /\ UNCHANGED <<params, header, out, rret, call, pipe, cw>>
        /\ UNCHANGED writerVars

Sealed == phase = "writing" /\ w.err = ErrClosed

\* The container reaches the Reader as it was written.
Deliver ==
    /\ Sealed
    /\ OpenContainer(ParseHeader(header), sink.dst, NoAttack)

CallRead(plen) ==
    /\ phase = "reading"
    /\ LET res == Read(r, src, plen)
       IN  /\ r' = res.r
           /\ src' = res.src
           /\ out' = out \o res.data
           /\ rret' = [plen |-> plen, n |-> res.n, err |-> res.err,
                       latched |-> r.err # Nil]
    /\ UNCHANGED <<params, header, phase, attack, perr, call, pipe, cw>>
    /\ UNCHANGED writerVars

WriterStep ==
    \/ \E p \in SeqsUpTo(Bytes, MaxWrite), failAt \in 0..MaxWrite,
          part \in PartialWrites : CallWrite(p, failAt, part)
    \/ \E fail \in BOOLEAN, part \in PartialWrites : CallClose(fail, part)

ReaderStep == \E plen \in 0..MaxRead : CallRead(plen)

Next == WriterStep \/ Deliver \/ ReaderStep

Spec == Init /\ [][Next]_vars

\* ------------------------------------------------- the container on its way
\* The bytes of frame k of the sink (k from 1).
FrameBytes(k) ==
    LET start == Sum(Take(sink.frames, k - 1))
    IN  SubSeq(sink.dst, start + 1, start + sink.frames[k])

\* The frame byte i of the sink lies in (from 1).
FrameOf(i) ==
    CHOOSE k \in 1..Len(sink.frames) :
        Sum(Take(sink.frames, k - 1)) < i /\ i <= Sum(Take(sink.frames, k))

RECURSIVE Concat(_)
Concat(ss) == IF Len(ss) = 0 THEN <<>> ELSE Head(ss) \o Concat(Tail(ss))

Perms(n) ==
    {f \in [1..n -> 1..n] : \A i, j \in 1..n : f[i] = f[j] => i = j}

\* What one byte of the body may be changed into.
AlterValues == {Garbage, sink.dst[1], sink.dst[Len(sink.dst)]}

\* One frame of the body altered, its length kept: one byte changed, the
\* whole frame overwritten, or the frame replaced by another frame of the
\* container that has its length. at: the frame, from 0.
Tamper ==
    /\ Sealed
    /\ LET ph == ParseHeader(header)
       IN  \/ \E i \in 1..Len(sink.dst), b \in AlterValues :
                /\ b # sink.dst[i]
                /\ OpenContainer(ph, [sink.dst EXCEPT ![i] = b],
                                 [kind |-> "tamper", at |-> FrameOf(i) - 1])
           \/ \E k \in 1..Len(sink.frames), g \in 0..Len(sink.frames) :
                /\ g # k
                /\ g # 0 => sink.frames[g] = sink.frames[k]
                /\ OpenContainer(
                       ph,
                       Concat([j \in 1..Len(sink.frames) |->
                                 IF j # k THEN FrameBytes(j)
                                 ELSE IF g = 0
                                 THEN [i \in 1..sink.frames[k] |-> Garbage]
                                 ELSE FrameBytes(g)]),
                       [kind |-> "tamper", at |-> k - 1])

\* The frames of the body in another order. at: the first position, from 0,
\* that holds another frame than before.
Reorder ==
    /\ Sealed
    /\ LET ph == ParseHeader(header)
           n == Len(sink.frames)
       IN  \E f \in Perms(n) :
            /\ \E i \in 1..n : f[i] # i
            /\ OpenContainer(
                   ph,
                   Concat([j \in 1..n |-> FrameBytes(f[j])]),
                   [kind |-> "reorder",
                    at |-> (CHOOSE i \in 1..n :
                               f[i] # i /\ \A j \in 1..(i - 1) : f[j] = j) - 1])

\* The Reader gets the first k bytes of what the sink holds: all of it or
\* less when Close has not succeeded, less than all of it when it has.
\* at: k.
Truncate ==
    /\ phase = "writing"
    /\ LET ph == ParseHeader(header)
       IN  \E k \in 0..Len(sink.dst) :
            /\ w.err = ErrClosed => k < Len(sink.dst)
            /\ OpenContainer(ph, Take(sink.dst, k),
                             [kind |-> "truncate", at |-> k])

\* The characters a character of the header line may be changed into.
AlterChars == {"0", "1", "3", "x"}

\* One character of the header line, the line feed apart, changed.
\* at: its position.
TamperHeader ==
    /\ Sealed
    /\ \E i \in 1..(Len(header) - 1), c \in AlterChars :
        /\ c # header[i]
        /\ OpenContainer(ParseHeader([header EXCEPT ![i] = c]), sink.dst,
                         [kind |-> "header", at |-> i])

NextTamper == WriterStep \/ Tamper \/ ReaderStep

SpecTamper == Init /\ [][NextTamper]_vars

NextReorder == WriterStep \/ Reorder \/ ReaderStep

SpecReorder == Init /\ [][NextReorder]_vars

NextTruncate == WriterStep \/ Truncate \/ ReaderStep

SpecTruncate == Init /\ [][NextTruncate]_vars

NextHeader == WriterStep \/ TamperHeader \/ ReaderStep

SpecHeader == Init /\ [][NextHeader]_vars

\* ------------------------------------- the container under any of the attacks
\* A sealed body cut short.
TruncateSealed == Sealed /\ Truncate

\* The sealed body reaches the Reader whole, with its frames in another
\* order, or cut short.
NextAttack ==
    WriterStep \/ Deliver \/ Reorder \/ TruncateSealed \/ ReaderStep

SpecAttack == Init /\ [][NextAttack]_vars

\* ------------------------------------------- late in the counter's life
\* A Writer and a Reader that have gone through all but the last frames the
\* nonce counter has room for, and a source that may fail.
MaxLeft == 2

\* The nonce of value 2^96 - 1 - k.
LateNonce(k) ==
    [i \in 1..NonceSize |->
        IF i = NonceSize THEN ByteRange - 1 - k ELSE ByteRange - 1]

InitLate ==
    \E cs \in 1..MaxChunk, rnd \in Salts, k \in 0..MaxLeft :
        LET dk == Key(Password,
                      [ZeroParams EXCEPT !.ChunkSize = cs, !.SaltSize = Len(rnd)],
                      RandomOk(rnd))
        IN  /\ params = dk.p
            /\ header = MarshalHeader(dk.p).bytes
            /\ w = [NewWriter(dk.key, dk.p.ChunkSize) EXCEPT
                        !.nonce = LateNonce(k)]
            /\ sink = NewSink
            /\ plain = <<>>
            /\ wret = [op |-> "none", plen |-> 0, n |-> 0, err |-> Nil]
            /\ phase = "writing"
            /\ attack = NoAttack
            /\ perr = NoError
            /\ src = NewSource(<<>>, FALSE, <<>>)
            /\ r = [NewReader(dk.key, dk.p.ChunkSize) EXCEPT
                        !.nonce = LateNonce(k)]
            /\ out = <<>>
            /\ rret = [plen |-> 0, n |-> 0, err |-> Nil, latched |-> FALSE]
            /\ call = NoCall
            /\ pipe = NoPipe
            /\ cw = NoCryptoWriter

\* The nonce values the counter had room for when the Writer of InitLate
\* sealed its first frame.
NoncesLeft == ByteRange - sink.seals[1].nonce[NonceSize]

\* Where the source may end: at the end of a frame, one byte before the end
\* of what the sink holds, or at that end.
Cuts ==
    {Sum(Take(sink.frames, j)) : j \in 0..Len(sink.frames)}
        \cup {Len(sink.dst)}
        \cup {k \in {Len(sink.dst) - 1} : k >= 0}

\* The Writer has ended (closed, or failed); a Reader that stands at the
\* Writer's first nonce gets the first k bytes of what the sink holds, from
\* a source that ends with io.EOF or with an error of its own.
DeliverLate ==
    /\ phase = "writing"
    /\ w.err # Nil
    /\ \E k \in Cuts, bad \in BOOLEAN :
        LET ph == ParseHeader(header)
            dk == Key(Password, ph.p, RandomOk(<<>>))
        IN  /\ ph.err = NoError /\ dk.err = NoError
            /\ phase' = "reading"
            /\ attack' = [kind |-> IF bad THEN "broken" ELSE "late", at |-> k]
            /\ src' = NewSource(Take(sink.dst, k), bad, sink.seals)
            /\ r' = [NewReader(dk.key, ph.p.ChunkSize) EXCEPT
                        !.nonce = sink.seals[1].nonce]
    /\ UNCHANGED <<params, header, perr, out, rret, call, pipe, cw>>
    /\ UNCHANGED writerVars

NextLate == WriterStep \/ DeliverLate \/ ReaderStep

SpecLate == InitLate /\ [][NextLate]_vars

\* ------------------------------------------------------ the Writer alone
\* A Writer from its first frame or late in the counter's life, and a sink
\* that may fail.
InitWriter == Init \/ InitLate

SpecWriter == InitWriter /\ [][WriterStep]_vars

\* ------------------------------------------- functions called on their own
\* The machine stays where Init put it; a function of the package is applied
\* to an input and call keeps the input and the result.
machineVars ==
    <<params, header, w, sink, plain, wret, phase, attack, perr, src, r, out,
      rret, pipe, cw>>

MaxNonceLen == 3

\* The values a byte of a nonce takes.
NonceBytes == {0, 1, 127, ByteRange - 2, ByteRange - 1}

\* The buffers incNonce is called on: every buffer of 1..MaxNonceLen bytes,
\* and buffers of the nonce's own size from both ends of the counter's life.
NonceInputs ==
    (SeqsUpTo(NonceBytes, MaxNonceLen) \ {<<>>})
        \cup {ZeroNonce}
        \cup {LateNonce(k) : k \in 0..MaxLeft}
        \cup {[i \in 1..NonceSize |-> IF i = 1 THEN b ELSE ByteRange - 1] :
                b \in NonceBytes}

CallIncNonce ==
    /\ \E nonce \in NonceInputs :
        call' = [op |-> "incNonce", in |-> nonce, out |-> incNonce(nonce)]
    /\ UNCHANGED machineVars

SpecNonce == Init /\ [][CallIncNonce]_vars

\* The header lines ParseHeader is called on, slot by slot: the type, then
\* key and value of v, t, m, p, s and b. HeaderBase is what MarshalHeader
\* writes for the default costs, the salt <<7>> and chunk size 1; HeaderAlts
\* holds what else a slot may hold.
HeaderBase ==
    <<<<"a", "r", "g", "o", "n", "2", "i", "d">>,
      <<"v", "=">>,
      <<"1", "9">>,
      <<"t", "=">>,
      <<"1">>,
      <<"m", "=">>,
      <<"2", "0", "9", "7", "1", "5", "2">>,
      <<"p", "=">>,
      <<"4">>,
      <<"s", "=">>,
      <<"B", "w">>,
      <<"b", "=">>,
      <<"1">>>>

HeaderAlts ==
    <<
      \* type
      {<<>>,
       <<"a", "r", "g", "o", "n", "2", "i">>,
       <<"A", "r", "g", "o", "n", "2", "i", "d">>},
      \* the key of v
      {<<"x", "=">>,
       <<"v">>,
       <<>>},
      \* v
      {<<"0", "1", "9">>,
       <<"0">>,
       <<"1", "8">>,
       <<"2", "5", "6">>,
       <<"1", "x">>,
       <<>>,
       <<"+", "1", "9">>,
       <<"1", "=", "9">>},
      \* the key of t
      {<<"x", "=">>,
       <<"t">>,
       <<>>},
      \* t
      {<<"0", "1">>,
       <<"0">>,
       <<"3">>,
       <<"4", "2", "9", "4", "9", "6", "7", "2", "9", "5">>,
       <<"4", "2", "9", "4", "9", "6", "7", "2", "9", "6">>,
       <<>>,
       <<"-", "1">>},
      \* the key of m
      {<<"x", "=">>,
       <<"m">>,
       <<>>},
      \* m
      {<<"0">>,
       <<"1">>,
       <<"4", "2", "9", "4", "9", "6", "7", "2", "9", "6">>,
       <<"x">>},
      \* the key of p
      {<<"x", "=">>,
       <<"p">>,
       <<>>},
      \* p
      {<<"0", "4">>,
       <<"0">>,
       <<"2", "5", "5">>,
       <<"2", "5", "6">>,
       <<"4", ",", "q", "=", "1">>},
      \* the key of s
      {<<"x", "=">>,
       <<"s">>,
       <<>>},
      \* s
      {<<"B", "x">>,
       <<"B">>,
       <<>>,
       <<"B", "\r", "w">>,
       <<"B", "!">>,
       <<"B", "w", "A", "A">>,
       <<"A", "A", "E", "C">>,
       <<"B", "w", "=", "=">>},
      \* the key of b
      {<<"x", "=">>,
       <<"b">>,
       <<>>},
      \* b
      {<<"0", "1">>,
       <<"+", "1">>,
       <<"-", "1">>,
       <<"0">>,
       <<"x">>,
       <<>>,
       <<"1", "=", "2">>,
       <<"6", "5", "5", "3", "6">>,
       <<"9", "2", "2", "3", "3", "7", "2", "0", "3", "6", "8", "5", "4", "7", "7", "5", "8", "0", "7">>,
       <<"9", "2", "2", "3", "3", "7", "2", "0", "3", "6", "8", "5", "4", "7", "7", "5", "8", "0", "8">>,
       <<"-", "9", "2", "2", "3", "3", "7", "2", "0", "3", "6", "8", "5", "4", "7", "7", "5", "8", "0", "8">>}
    >>

HeaderSlots == 1..Len(HeaderBase)

\* strings.Join for a one-character separator.
RECURSIVE Join(_, _)
Join(parts, sep) ==
    IF Len(parts) = 0 THEN <<>>
    ELSE IF Len(parts) = 1 THEN parts[1]
    ELSE parts[1] \o <<sep>> \o Join(Tail(parts), sep)

HeaderCosts(h) == <<h[4] \o h[5], h[6] \o h[7], h[8] \o h[9]>>

HeaderFields(h) ==
    <<<<>>, h[1], h[2] \o h[3], Join(HeaderCosts(h), ","), h[10] \o h[11],
      h[12] \o h[13]>>

HeaderLine(h) == Join(HeaderFields(h), "$") \o <<"\n">>

\* The slots with one of them changed, and with two.
OneOff ==
    UNION {{[HeaderBase EXCEPT ![x] = a] : a \in HeaderAlts[x]} :
            x \in HeaderSlots}

TwoOff ==
    UNION {UNION {{[HeaderBase EXCEPT ![x] = a, ![y] = b] :
                        a \in HeaderAlts[x], b \in HeaderAlts[y]} :
                  y \in {z \in HeaderSlots : z > x}} :
           x \in HeaderSlots}

\* The line of h with its structure broken: no line feed, a byte before the
\* first "$", a field less, a field more, two cost parts, and whole with
\* bytes after the line feed.
Mangled(h) ==
    LET f == HeaderFields(h)
    IN  {Join(f, "$"),
         <<"x">> \o HeaderLine(h),
         Join(Take(f, 5), "$") \o <<"\n">>,
         Join(Append(f, <<"z">>), "$") \o <<"\n">>,
         Join([f EXCEPT ![4] = Join(Take(HeaderCosts(h), 2), ",")], "$")
            \o <<"\n">>,
         HeaderLine(h) \o <<"z", "\n", "$">>}

\* A salt of n bytes.
SaltBytes(n) == [i \in 1..n |-> (7 * i) % ByteRange]

\* The line with a salt of the lengths around MaxSaltLen.
LongSalts ==
    {[HeaderBase EXCEPT ![11] = EncodeToString(SaltBytes(n))] :
        n \in {MaxSaltLen - 1, MaxSaltLen, MaxSaltLen + 1}}

HeaderInputs ==
    {<<>>}
        \cup {HeaderLine(h) :
                h \in {HeaderBase} \cup OneOff \cup TwoOff \cup LongSalts}
        \cup UNION {Mangled(h) : h \in {HeaderBase} \cup OneOff}

CallParseHeader ==
    /\ call.op = "none"
    /\ \E text \in HeaderInputs :
        call' = [op |-> "ParseHeader", in |-> text, out |-> ParseHeader(text)]
    /\ UNCHANGED machineVars

SpecParse == Init /\ [][CallParseHeader]_vars

\* The parameters Check and MarshalHeader are called on: each field zero, at
\* its default and at another value; the salt nil, empty and of the lengths
\* around SaltSize and MaxSaltLen.
SaltLens == {0, 1, 2, SaltSize, MaxSaltLen - 1, MaxSaltLen, MaxSaltLen + 1}

SaltInputs == {NilSalt} \cup {SaltOf(SaltBytes(n)) : n \in SaltLens}

ParamsInputs ==
    [ArgonVersion : {0, ArgonVersion, 16},
     ArgonType : {<<>>, ArgonType, <<"a", "r", "g", "o", "n", "2", "i">>},
     SaltSize : {0, 1, 2, SaltSize, ByteRange - 1},
     Salt : SaltInputs,
     ArgonTime : {0, ArgonTime, 3},
     ArgonMemory : {0, 1, ArgonMemory},
     ArgonThreads : {0, ArgonThreads, ByteRange - 1},
     ChunkSize : {0 - 1, 0, 1, ChunkSize}]

CallCheck ==
    /\ call.op = "none"
    /\ \E p \in ParamsInputs :
        call' = [op |-> "Check", in |-> p, out |-> Check(p)]
    /\ UNCHANGED machineVars

CallMarshalHeader ==
    /\ call.op = "none"
    /\ \E p \in ParamsInputs :
        call' = [op |-> "MarshalHeader", in |-> p, out |-> MarshalHeader(p)]
    /\ UNCHANGED machineVars

NextParams == CallCheck \/ CallMarshalHeader

SpecParams == Init /\ [][NextParams]_vars

\* Key called on its own, and called again on the parameters the first call
\* left: two passwords, the parameters with the costs at zero or at another
\* value, two outcomes of the generator for each salt size, and its failure.
Passwords == {Password, "other"}

KeyParamsInputs ==
    {p \in ParamsInputs :
        /\ p.ArgonTime \in {0, 3}
        /\ p.ArgonMemory \in {0, 1}
        /\ p.ArgonThreads = 0
        /\ p.ChunkSize \in {0, 1}}

RandomBytes(n) == {[i \in 1..n |-> b] : b \in {3, 5}}

random(n) == {RandomOk(b) : b \in RandomBytes(n)} \cup {RandomFailed(n)}

CallKey ==
    /\ call.op = "none"
    /\ \E password \in Passwords, p \in KeyParamsInputs :
        \E rd \in random(checkFormatted(p).p.SaltSize) :
            call' = [op |-> "Key",
                     in |-> [password |-> password, params |-> p, rd |-> rd,
                             before |-> [key |-> <<>>, p |-> p,
                                         err |-> NoError]],
                     out |-> Key(password, p, rd)]
    /\ UNCHANGED machineVars

CallKeyAgain ==
    /\ call.op = "Key"
    /\ call.out.err = NoError
    /\ \E rd \in random(checkFormatted(call.out.p).p.SaltSize) :
        call' = [op |-> "KeyAgain",
                 in |-> [password |-> call.in.password, params |-> call.out.p,
                         rd |-> rd, before |-> call.out],
                 out |-> Key(call.in.password, call.out.p, rd)]
    /\ UNCHANGED machineVars

NextKey == CallKey \/ CallKeyAgain

SpecKey == Init /\ [][NextKey]_vars

\* ------------------------------------------------------- buffer capacities
\* The int64 arithmetic of NewWriter, NewReader and readChunk on the chunk
\* size. An int64 is its two's complement bit pattern in Limbs limbs of
\* LimbBits bits, the most significant first; int is 64 bits wide.
LimbBits == 16

Limbs == 4

LimbBase == 2 ^ LimbBits

ZeroInt64 == [i \in 1..Limbs |-> 0]

\* x * m + a in 64 bits, for small m and a: what is carried out of the top
\* limb is lost.
MulAdd(x, m, a) ==
    LET l4 == x[4] * m + a
        l3 == x[3] * m + (l4 \div LimbBase)
        l2 == x[2] * m + (l3 \div LimbBase)
        l1 == x[1] * m + (l2 \div LimbBase)
    IN  <<l1 % LimbBase, l2 % LimbBase, l3 % LimbBase, l4 % LimbBase>>

\* The sign bit.
Negative(x) == x[1] >= LimbBase \div 2

\* The int64 strconv.ParseInt gives for digits it accepts.
RECURSIVE Int64Of(_, _)
Int64Of(digits, acc) ==
    IF Len(digits) = 0 THEN acc
    ELSE Int64Of(Tail(digits), MulAdd(acc, 10, DigitValue(Head(digits))))

\* bytes.Buffer.Grow(n) panics on a negative count.
Grow(n) == [n |-> n, panic |-> Negative(n)]

\* The chunk sizes the capacities are computed for, as the header's b field
\* holds them: 1..SmallChunks, and the last NearMax values of int64 with the
\* first value past them.
SmallChunks == 24

NearMax == 40

MaxInt64Head ==
    <<"9", "2", "2", "3", "3", "7", "2", "0", "3", "6",
      "8", "5", "4", "7", "7", "5">>

MaxInt64Tail == 807

ChunkTexts ==
    {FormatUint(n) : n \in 1..SmallChunks}
        \cup {MaxInt64Head \o FormatUint(n) :
                n \in (MaxInt64Tail - NearMax + 1)..(MaxInt64Tail + 1)}

\* The b field as ParseHeader reads it and Check keeps it: the chunk sizes
\* that get to NewWriter and NewReader.
AcceptedChunks ==
    {t \in ChunkTexts : LET i == ParseInt(t) IN ~i.err /\ i.val > 0}

\* w.buff.Grow(int(w.chunkSize + chacha20poly1305.Overhead))
CallNewWriterGrow ==
    /\ call.op = "none"
    /\ \E t \in AcceptedChunks :
        LET chunkSize == Int64Of(t, ZeroInt64)
        IN  call' = [op |-> "NewWriter", in |-> [text |-> t, chunkSize |-> chunkSize],
                     out |-> Grow(MulAdd(chunkSize, 1, Overhead))]
    /\ UNCHANGED machineVars

\* r.buff.Grow(r.chunkSize + chacha20poly1305.Overhead)
CallNewReaderGrow ==
    /\ call.op = "none"
    /\ \E t \in AcceptedChunks :
        LET chunkSize == Int64Of(t, ZeroInt64)
        IN  call' = [op |-> "NewReader", in |-> [text |-> t, chunkSize |-> chunkSize],
                     out |-> Grow(MulAdd(chunkSize, 1, Overhead))]
    /\ UNCHANGED machineVars

\* io.CopyN(&r.buff, r.src, int64(r.chunkSize)+chacha20poly1305.Overhead):
\* no panic; a negative count reads nothing.
CallReadChunkLength ==
    /\ call.op = "none"
    /\ \E t \in AcceptedChunks :
        LET chunkSize == Int64Of(t, ZeroInt64)
        IN  call' = [op |-> "readChunk", in |-> [text |-> t, chunkSize |-> chunkSize],
                     out |-> [n |-> MulAdd(chunkSize, 1, Overhead),
                              panic |-> FALSE]]
    /\ UNCHANGED machineVars

NextCapacity == CallNewWriterGrow \/ CallNewReaderGrow \/ CallReadChunkLength

SpecCapacity == Init /\ [][NextCapacity]_vars

\* ------------------------------------------------ the pipeline of process
\* Encrypt and Decrypt of parallel.go: process runs three goroutines in an
\* errgroup, the source reader, the transformer and the sink writer, over
\* four unbuffered channels (chanIn, chanOut, read, written), one input
\* buffer and one output buffer. A send and its receive are one step; a
\* goroutine that returns runs its deferred closes one by one, and the group
\* then records its error and cancels the context, each as a step of its
\* own. pipe.pc holds where each goroutine stands.

\* What Write followed by Close sends for the plaintext p, from the nonce
\* first on, to a sink that takes everything.
WriterBody(key, chunkSize, first, p) ==
    LET w0 == [NewWriter(key, chunkSize) EXCEPT !.nonce = first]
        a == Write(w0, NewSink, p, 0, 0)
    IN  Close(a.w, a.io, FALSE, 0)

\* The nonces the transform starts from: the first one, as Encrypt and
\* Decrypt make it, and the last ones of the counter's life.
FirstNonces == {ZeroNonce} \cup {LateNonce(k) : k \in 0..1}

\* Where the body given to Decrypt may end: at the end of a frame, one byte
\* before the end of the body, or at its end.
BodyCuts(io) ==
    {Sum(Take(io.frames, j)) : j \in 0..Len(io.frames)}
        \cup {Len(io.dst)}
        \cup {k \in {Len(io.dst) - 1} : k >= 0}

\* process(src, buffInSize, dst, buffOutSize, p) before its goroutines run.
\* data: what the source still holds; bad: the source ends with an error of
\* its own instead of io.EOF; given: what the source held at the start;
\* reads, inputs, nonces, outputs: the blocks the source returned, each with
\* the error returned with it, the blocks the transform was called on, the
\* nonce of each call and what it returned; failed: the errors of the calls
\* that failed, in order.
process(mode, key, chunkSize, first, data, bad, seals, buffInSize, buffOutSize) ==
    [mode |-> mode, key |-> key, chunkSize |-> chunkSize, first |-> first,
     nonce |-> first, seals |-> seals, given |-> data, data |-> data,
     bad |-> bad, buffInSize |-> buffInSize, buffOutSize |-> buffOutSize,
     buffIn |-> <<>>, buffOut |-> <<>>, dst |-> <<>>, writes |-> <<>>,
     pc |-> [R |-> "top", T |-> "recv", W |-> "recv"],
     err |-> [R |-> Nil, T |-> Nil, W |-> Nil],
     closed |-> [chanIn |-> FALSE, chanOut |-> FALSE, read |-> FALSE,
                 written |-> FALSE],
     ctxDone |-> FALSE, groupErr |-> Nil, failed |-> <<>>,
     returned |-> FALSE, ret |-> Nil,
     reads |-> <<>>, inputs |-> <<>>, nonces |-> <<>>, outputs |-> <<>>]

Running == pipe.mode # "none" /\ ~pipe.returned

\* Encrypt(key, src, dst, params): the source holds a plaintext. The cipher
\* knows the frames the Writer makes of that plaintext.
CallEncrypt ==
    /\ pipe.mode = "none"
    /\ call.op = "none"
    /\ \E p \in SeqsUpTo(Bytes, MaxPlain), bad \in BOOLEAN,
          first \in FirstNonces :
        pipe' = process("Encrypt", w.key, params.ChunkSize, first, p, bad,
                        WriterBody(w.key, params.ChunkSize, first, p).io.seals,
                        params.ChunkSize, params.ChunkSize + Overhead)
    /\ UNCHANGED <<params, header, w, sink, plain, wret, phase, attack, perr,
                   src, r, out, rret, call, cw>>

\* Decrypt(key, src, dst, params): the source holds what the Writer sent for
\* a plaintext, or the first bytes of it.
CallDecrypt ==
    /\ pipe.mode = "none"
    /\ call.op = "none"
    /\ \E p \in SeqsUpTo(Bytes, MaxPlain), bad \in BOOLEAN,
          first \in FirstNonces :
        LET body == WriterBody(w.key, params.ChunkSize, first, p).io
        IN  \E k \in BodyCuts(body) :
                pipe' = process("Decrypt", w.key, params.ChunkSize, first,
                                Take(body.dst, k), bad, body.seals,
                                params.ChunkSize + Overhead, params.ChunkSize)
    /\ UNCHANGED <<params, header, w, sink, plain, wret, phase, attack, perr,
                   src, r, out, rret, call, cw>>

\* A goroutine's function returns err: its deferred closes come next.
Return(g, err, at) == [pipe EXCEPT !.pc[g] = at, !.err[g] = err]

\* The step after the last deferred close: the group's wrapper gets the
\* error, or the goroutine is done.
AfterDefers(g) == IF pipe.err[g] # Nil THEN "cancel" ELSE "done"

PipeUnchanged ==
    UNCHANGED <<params, header, w, sink, plain, wret, phase, attack, perr,
                src, r, out, rret, call, cw>>

\* ---- the source reader
\* select { case <-ctx.Done(): return nil; default: }
ReaderCheck ==
    /\ Running
    /\ pipe.pc.R = "top"
    /\ pipe' = IF pipe.ctxDone THEN Return("R", Nil, "closeIn")
               ELSE [pipe EXCEPT !.pc.R = "reading"]
    /\ PipeUnchanged

\* The sizes of a read that returns fewer bytes than it could.
ShortReads == {1}

\* n, err := src.Read(buffIn): bytes and nil, the last bytes together with
\* io.EOF, or nothing and the end of the source. io.EOF returns nil at once,
\* another error returns it.
ReaderRead ==
    /\ Running
    /\ pipe.pc.R = "reading"
    /\ \/ /\ pipe.data # <<>>
          /\ \E n \in ShortReads \cup {min(pipe.buffInSize, Len(pipe.data))} :
                /\ n <= Len(pipe.data)
                /\ n <= pipe.buffInSize
                /\ pipe' = [pipe EXCEPT !.buffIn = Take(pipe.data, n),
                                        !.data = Drop(pipe.data, n),
                                        !.reads = Append(@, [data |-> Take(pipe.data, n),
                                                             err |-> Nil]),
                                        !.pc.R = "send"]
       \/ /\ pipe.data # <<>>
          /\ Len(pipe.data) <= pipe.buffInSize
          /\ ~pipe.bad
          /\ pipe' = [Return("R", Nil, "closeIn") EXCEPT
                            !.buffIn = pipe.data,
                            !.data = <<>>,
                            !.reads = Append(@, [data |-> pipe.data, err |-> EOF])]
       \/ /\ pipe.data = <<>>
          /\ pipe' = IF pipe.bad
                     THEN [Return("R", ErrSource, "closeIn") EXCEPT
                                !.failed = Append(@, ErrSource)]
                     ELSE Return("R", Nil, "closeIn")
    /\ PipeUnchanged

\* chanIn <- buffIn[:n] meets the transformer's range over chanIn.
SendInput ==
    /\ Running
    /\ pipe.pc.R = "send"
    /\ pipe.pc.T = "recv"
    /\ pipe' = [pipe EXCEPT !.pc.R = "wait", !.pc.T = "check"]
    /\ PipeUnchanged

\* <-read on the closed channel.
ReaderWakes ==
    /\ Running
    /\ pipe.pc.R = "wait"
    /\ pipe.closed.read
    /\ pipe' = [pipe EXCEPT !.pc.R = "top"]
    /\ PipeUnchanged

\* defer close(chanIn)
ReaderCloses ==
    /\ Running
    /\ pipe.pc.R = "closeIn"
    /\ pipe' = [pipe EXCEPT !.closed.chanIn = TRUE, !.pc.R = AfterDefers("R")]
    /\ PipeUnchanged

\* ---- the transformer
\* range over chanIn, closed: the loop ends and the function returns nil.
TransformerEnds ==
    /\ Running
    /\ pipe.pc.T = "recv"
    /\ pipe.closed.chanIn
    /\ pipe' = Return("T", Nil, "closeRead")
    /\ PipeUnchanged

\* The transformer that lets the source reader go on before it has called p.
TransformerCheck_releaseFirst ==
    /\ Running
    /\ pipe.pc.T = "check"
    /\ pipe' = IF pipe.ctxDone THEN Return("T", Nil, "closeRead")
               ELSE [pipe EXCEPT !.pc.T = "transform", !.pc.R = "top"]
    /\ PipeUnchanged

TransformerCheck ==
    /\ Running
    /\ pipe.pc.T = "check"
    /\ pipe' = IF pipe.ctxDone THEN Return("T", Nil, "closeRead")
               ELSE [pipe EXCEPT !.pc.T = "transform"]
    /\ PipeUnchanged

\* The closure of Encrypt: aead.Seal into output, then incNonce.
EncryptBlock(pp, input) ==
    LET s == Seal(pp.seals, pp.key, pp.nonce, input)
        inc == incNonce(pp.nonce)
    IN  [output |-> s.ciphertext, buffOut |-> s.ciphertext, seals |-> s.seals,
         nonce |-> inc.nonce, err |-> inc.err]

\* The closure of Decrypt: aead.Open into output, then incNonce.
DecryptBlock(pp, input) ==
    LET o == Open(pp.seals, pp.key, pp.nonce, input)
        inc == incNonce(pp.nonce)
    IN  IF o.err # Nil
        THEN [output |-> <<>>, buffOut |-> pp.buffOut, seals |-> pp.seals,
              nonce |-> pp.nonce, err |-> o.err]
        ELSE [output |-> o.plaintext, buffOut |-> o.plaintext,
              seals |-> pp.seals, nonce |-> inc.nonce, err |-> inc.err]

\* output, err := p(input, buffOut); an error returns it.
Transform ==
    /\ Running
    /\ pipe.pc.T = "transform"
    /\ LET t == IF pipe.mode = "Encrypt" THEN EncryptBlock(pipe, pipe.buffIn)
                ELSE DecryptBlock(pipe, pipe.buffIn)
           p1 == [pipe EXCEPT !.seals = t.seals, !.nonce = t.nonce,
                              !.buffOut = t.buffOut,
                              !.inputs = Append(@, pipe.buffIn),
                              !.nonces = Append(@, pipe.nonce)]
       IN  pipe' = IF t.err # Nil
                   THEN [p1 EXCEPT !.pc.T = "closeRead", !.err.T = t.err,
                                   !.failed = Append(@, t.err)]
                   ELSE [p1 EXCEPT !.pc.T = "signal",
                                   !.outputs = Append(@, t.output)]
    /\ PipeUnchanged

\* read <- struct{}{} meets the source reader's <-read.
SignalRead ==
    /\ Running
    /\ pipe.pc.T = "signal"
    /\ pipe.pc.R = "wait"
    /\ pipe' = [pipe EXCEPT !.pc.T = "sendOut", !.pc.R = "top"]
    /\ PipeUnchanged

\* chanOut <- output meets the sink writer's range over chanOut.
SendOutput ==
    /\ Running
    /\ pipe.pc.T = "sendOut"
    /\ pipe.pc.W = "recv"
    /\ pipe' = [pipe EXCEPT !.pc.T = "waitWritten", !.pc.W = "check"]
    /\ PipeUnchanged

\* <-written on the closed channel.
TransformerWakes ==
    /\ Running
    /\ pipe.pc.T = "waitWritten"
    /\ pipe.closed.written
    /\ pipe' = [pipe EXCEPT !.pc.T = "recv"]
    /\ PipeUnchanged

\* defer close(read), the deferred call that runs first.
TransformerClosesRead ==
    /\ Running
    /\ pipe.pc.T = "closeRead"
    /\ pipe' = [pipe EXCEPT !.closed.read = TRUE, !.pc.T = "closeOut"]
    /\ PipeUnchanged

\* defer close(chanOut)
TransformerClosesOut ==
    /\ Running
    /\ pipe.pc.T = "closeOut"
    /\ pipe' = [pipe EXCEPT !.closed.chanOut = TRUE,
                            !.pc.T = AfterDefers("T")]
    /\ PipeUnchanged

\* ---- the sink writer
\* range over chanOut, closed.
WriterEnds ==
    /\ Running
    /\ pipe.pc.W = "recv"
    /\ pipe.closed.chanOut
    /\ pipe' = Return("W", Nil, "closeWritten")
    /\ PipeUnchanged

WriterCheck ==
    /\ Running
    /\ pipe.pc.W = "check"
    /\ pipe' = IF pipe.ctxDone THEN Return("W", Nil, "closeWritten")
               ELSE [pipe EXCEPT !.pc.W = "writing"]
    /\ PipeUnchanged

\* _, err := dst.Write(output): all of it, or a failure after part bytes.
WriterWrite ==
    /\ Running
    /\ pipe.pc.W = "writing"
    /\ \/ pipe' = [pipe EXCEPT !.dst = @ \o pipe.buffOut,
                               !.writes = Append(@, pipe.buffOut),
                               !.pc.W = "signal"]
       \/ \E part \in PartialWrites :
            /\ part <= Len(pipe.buffOut)
            /\ pipe' = [Return("W", ErrSink, "closeWritten") EXCEPT
                            !.dst = @ \o Take(pipe.buffOut, part),
                            !.failed = Append(@, ErrSink)]
    /\ PipeUnchanged

\* written <- struct{}{} meets the transformer's <-written.
SignalWritten ==
    /\ Running
    /\ pipe.pc.W = "signal"
    /\ pipe.pc.T = "waitWritten"
    /\ pipe' = [pipe EXCEPT !.pc.W = "recv", !.pc.T = "recv"]
    /\ PipeUnchanged

\* defer close(written)
WriterCloses ==
    /\ Running
    /\ pipe.pc.W = "closeWritten"
    /\ pipe' = [pipe EXCEPT !.closed.written = TRUE,
                            !.pc.W = AfterDefers("W")]
    /\ PipeUnchanged

\* ---- the group
\* errgroup: the first error a function returns is kept and cancels the
\* context.
Cancel ==
    /\ Running
    /\ \E g \in {"R", "T", "W"} :
        /\ pipe.pc[g] = "cancel"
        /\ pipe' = [pipe EXCEPT
                        !.groupErr = IF @ = Nil THEN pipe.err[g] ELSE @,
                        !.ctxDone = TRUE,
                        !.pc[g] = "done"]
    /\ PipeUnchanged

\* err := group.Wait(): the three goroutines are done; process returns the
\* group's error, and Encrypt or Decrypt wraps it.
\* process that returns nil whatever the group's error is.
Wait_nil ==
    /\ Running
    /\ \A g \in {"R", "T", "W"} : pipe.pc[g] = "done"
    /\ pipe' = [pipe EXCEPT !.returned = TRUE, !.ret = Nil, !.ctxDone = TRUE]
    /\ PipeUnchanged

Wait ==
    /\ Running
    /\ \A g \in {"R", "T", "W"} : pipe.pc[g] = "done"
    /\ pipe' = [pipe EXCEPT !.returned = TRUE, !.ret = pipe.groupErr,
                            !.ctxDone = TRUE]
    /\ PipeUnchanged

SourceReader ==
    ReaderCheck \/ ReaderRead \/ SendInput \/ ReaderWakes \/ ReaderCloses

Transformer ==
    \/ TransformerEnds \/ TransformerCheck \/ Transform \/ SignalRead
    \/ SendOutput \/ TransformerWakes \/ TransformerClosesRead
    \/ TransformerClosesOut

SinkWriter ==
    WriterEnds \/ WriterCheck \/ WriterWrite \/ SignalWritten \/ WriterCloses

NextPipe ==
    \/ CallEncrypt \/ CallDecrypt
    \/ SourceReader \/ Transformer \/ SinkWriter
    \/ Cancel \/ Wait

SpecPipe == Init /\ [][NextPipe]_vars

\* The Go scheduler runs every goroutine that can take a step.
SpecPipeFair == SpecPipe /\ WF_vars(NextPipe)

\* -------------------------------------------- the Writer of package crypto
\* The Writer that is handed the header and writes it itself. Its flush, its
\* incNonce and the loop of its Write are those of the Writer above, with the
\* constant ChunkSize (64 KiB in the source) for the chunk size.
cryptoChunkSize == MaxChunk

\* The lengths of the headers handed to NewWriter; Encrypt hands over a
\* header that ends with the delimiter, one byte at the least.
MaxHeaderLen == 2

\* Header byte i. No seal gives it out.
HeaderByte(i) == 0 - i

ArgonHeaders == {[i \in 1..n |-> HeaderByte(i)] : n \in 0..MaxHeaderLen}

\* w.argonHeader: nil, or the copy of the header.
NilHeader == [nil |-> TRUE, bytes |-> <<>>]

ErrWriting == "writing to underlying writer failed: " \o ErrSink

cryptoNewWriter(key, argonHeader) ==
    [chunkSize |-> cryptoChunkSize, key |-> key, nonce |-> ZeroNonce,
     buff |-> <<>>, err |-> Nil,
     argonHeader |-> [nil |-> FALSE, bytes |-> argonHeader]]

\* failAt = 1: the next dst.Write fails, that of the header if it is still
\* to be written.
cryptoWrite(wr, io, p, failAt, part) ==
    IF wr.err # Nil THEN [w |-> wr, io |-> io, n |-> 0, err |-> wr.err]
    ELSE IF ~wr.argonHeader.nil /\ failAt = 1
    THEN [w |-> [wr EXCEPT !.err = ErrWriting],
          io |-> [io EXCEPT
                    !.dst = @ \o Take(wr.argonHeader.bytes,
                                      min(part, Len(wr.argonHeader.bytes)))],
          n |-> 0, err |-> ErrWriting]
    ELSE LET first == ~wr.argonHeader.nil
             io1 == IF first
                    THEN [io EXCEPT !.dst = @ \o wr.argonHeader.bytes]
                    ELSE io
             res == WriteLoop([wr EXCEPT !.argonHeader = NilHeader], io1, p,
                              IF first THEN failAt - 1 ELSE failAt, part)
         IN  [w |-> res.w, io |-> res.io,
              n |-> IF res.err = Nil THEN Len(p) ELSE 0, err |-> res.err]

cryptoClose(wr, io, fail, part) ==
    IF wr.err # Nil THEN [w |-> wr, io |-> io, err |-> wr.err]
    ELSE LET f == flush(wr, io, fail, part)
         IN  IF f.err # Nil
             THEN [w |-> [f.w EXCEPT !.err = f.err], io |-> f.io,
                   err |-> f.err]
             ELSE [w |-> [f.w EXCEPT !.err = ErrClosed], io |-> f.io,
                   err |-> Nil]

CryptoUnchanged ==
    UNCHANGED <<params, header, w, sink, plain, wret, phase, attack, perr, src,
                r, out, rret, call, pipe>>

\* NewWriter, called by Encrypt (copy: the Writer is then driven by io.Copy,
\* which calls Write with the bytes of every read that returned some, and
\* never with none) or by another caller.
CallCryptoNewWriter ==
    /\ ~cw.made
    /\ \E h \in ArgonHeaders, copy \in BOOLEAN :
        /\ copy => Len(h) > 0
        /\ cw' = [made |-> TRUE, copy |-> copy, header |-> h,
                  w |-> cryptoNewWriter(w.key, h), io |-> NewSink,
                  plain |-> <<>>, wrote |-> FALSE,
                  ret |-> [op |-> "NewWriter", n |-> 0, err |-> Nil]]
    /\ CryptoUnchanged

CallCryptoWrite ==
    /\ cw.made
    /\ \E p \in SeqsUpTo(Bytes, MaxWrite), failAt \in 0..(MaxWrite + 1),
          part \in PartialWrites :
        /\ cw.copy => Len(p) > 0 /\ cw.ret.err = Nil /\ cw.ret.op # "Close"
        /\ Len(cw.plain) + Len(p) <= MaxPlain
        /\ LET res == cryptoWrite(cw.w, cw.io, p, failAt, part)
           IN  cw' = [cw EXCEPT
                        !.w = res.w, !.io = res.io,
                        !.plain = IF res.err = Nil THEN @ \o p ELSE @,
                        !.wrote = TRUE,
                        !.ret = [op |-> "Write", n |-> res.n, err |-> res.err]]
    /\ CryptoUnchanged

\* Encrypt calls Close once, after an io.Copy that returned no error.
CallCryptoClose ==
    /\ cw.made
    /\ cw.copy => cw.ret.err = Nil /\ cw.ret.op # "Close"
    /\ \E fail \in BOOLEAN, part \in PartialWrites :
        LET res == cryptoClose(cw.w, cw.io, fail, part)
        IN  cw' = [cw EXCEPT
                     !.w = res.w, !.io = res.io,
                     !.ret = [op |-> "Close", n |-> 0, err |-> res.err]]
    /\ CryptoUnchanged

NextCrypto == CallCryptoNewWriter \/ CallCryptoWrite \/ CallCryptoClose

SpecCrypto == Init /\ [][NextCrypto]_vars

\* ------------------------------------------------------------------ claims
CeilDiv(a, b) == (a + b - 1) \div b

\* The frames are those of a plaintext of n bytes cut into chunks of cs.
FramesFor(n, cs) ==
    [i \in 1..((n \div cs) + 1) |->
        IF i <= n \div cs THEN cs + Overhead ELSE (n % cs) + Overhead]

\* C1. Round trip: a Reader made from the header and the bytes the Writer
\* sent returns the bytes written, in order and with nil errors, whatever the
\* chunk size, the split into Write calls and the sizes of the Read buffers,
\* and the Read after the last byte returns 0 bytes and io.EOF.
RoundTrip ==
    attack.kind = "none" =>
        /\ phase # "rejected"
        /\ IsPrefix(out, plain)
        /\ r.err \in {Nil, EOF}
        /\ rret.err \in {Nil, EOF}
        /\ rret.err = EOF => rret.n = 0 /\ out = plain
        /\ rret.plen > 0 /\ rret.n = 0 => rret.err = EOF
        /\ rret.n > 0 => rret.err = Nil

RoundTripDone ==
    /\ phase = "reading"
    /\ attack.kind = "none"
    /\ rret.err = EOF
    /\ out = plain
    /\ Len(plain) = MaxPlain
    /\ Len(sink.frames) >= 2

\* C2. Body tampering: with one frame of the body altered, decryption fails
\* with the authentication error when it reaches that frame, returns no
\* plaintext byte of that frame or of a later one, and never returns io.EOF.
BodyTampering ==
    attack.kind = "tamper" =>
        /\ phase = "reading"
        /\ r.err \in {Nil, ErrOpen}
        /\ rret.err \in {Nil, ErrOpen}
        /\ ~r.lastChunk
        /\ IsPrefix(out, plain)
        /\ Len(out) <= attack.at * params.ChunkSize
        /\ src.copies <= attack.at + 1
        /\ r.err = ErrOpen <=> src.copies = attack.at + 1
        /\ rret.plen > 0 /\ rret.n = 0 => rret.err = ErrOpen

BodyTamperingCaught ==
    /\ attack.kind = "tamper"
    /\ attack.at >= 1
    /\ attack.at + 1 < Len(sink.frames)
    /\ rret.err = ErrOpen
    /\ Len(out) = attack.at * params.ChunkSize

\* C4. Reordering: with the frames of a container of two frames or more in
\* another order, decryption fails with the authentication error at the
\* first position that holds a frame sealed for another position, and
\* returns no plaintext of that position or a later one.
Reordering ==
    attack.kind = "reorder" =>
        /\ phase = "reading"
        /\ r.err \in {Nil, ErrOpen}
        /\ rret.err \in {Nil, ErrOpen}
        /\ ~r.lastChunk
        /\ IsPrefix(out, plain)
        /\ Len(out) <= attack.at * params.ChunkSize
        /\ src.copies <= attack.at + 1
        /\ r.err = ErrOpen <=> src.copies = attack.at + 1
        /\ rret.plen > 0 /\ rret.n = 0 => rret.err = ErrOpen

ReorderingCaught ==
    /\ attack.kind = "reorder"
    /\ attack.at >= 1
    /\ rret.err = ErrOpen
    /\ Len(out) = attack.at * params.ChunkSize

\* C5. Truncation: a Reader over a prefix of the body that lacks the
\* terminal frame or part of it (Close never succeeded, or the sealed body
\* was cut short, down to nothing) never returns io.EOF; it fails with the
\* authentication error as soon as it goes for the first frame that is not
\* all there.
Truncation ==
    attack.kind = "truncate" =>
        /\ phase = "reading"
        /\ r.err \in {Nil, ErrOpen}
        /\ rret.err \in {Nil, ErrOpen}
        /\ ~r.lastChunk
        /\ src.copies <= (attack.at \div (params.ChunkSize + Overhead)) + 1
        /\ r.err = ErrOpen <=>
               src.copies = (attack.at \div (params.ChunkSize + Overhead)) + 1
        /\ rret.plen > 0 /\ rret.n = 0 => rret.err = ErrOpen

TruncationNoClose ==
    /\ attack.kind = "truncate"
    /\ w.err = Nil
    /\ Len(sink.frames) >= 2
    /\ attack.at = Len(sink.dst)
    /\ rret.err = ErrOpen
    /\ Len(out) = Len(sink.frames) * params.ChunkSize

\* C3. Header tampering: with one character of the header line changed,
\* ParseHeader fails, or decryption of the unchanged body under the key
\* derived from the parsed parameters never ends with io.EOF.
HeaderTampering ==
    attack.kind = "header" => r.err # EOF /\ rret.err # EOF

\* The chunk size of the header changed, and the plaintext comes back whole
\* with io.EOF after it.
HeaderTamperingAccepted ==
    /\ attack.kind = "header"
    /\ attack.at = Len(header) - 1
    /\ Len(plain) >= 1
    /\ out = plain
    /\ rret.err = EOF

\* C6. Container length (section 8): once Close has succeeded, header plus
\* sink hold len(header) + ceil((len(P)+1)/chunk_size)*16 + len(P) bytes when
\* len(P) is a multiple of chunk_size, and
\* len(header) + (floor(len(P)/chunk_size)+1)*16 + len(P) bytes otherwise.
ContainerLength ==
    w.err = ErrClosed =>
        LET n == Len(plain)
            cs == params.ChunkSize
        IN  Len(header) + Len(sink.dst) =
                IF n % cs = 0
                THEN Len(header) + CeilDiv(n + 1, cs) * Overhead + n
                ELSE Len(header) + ((n \div cs) + 1) * Overhead + n

ContainerLengthMultiple ==
    /\ w.err = ErrClosed
    /\ Len(plain) = params.ChunkSize
    /\ params.ChunkSize > 1
    /\ Len(sink.dst) = Len(plain) + 2 * Overhead

\* C7, as stated in section 6: with len(P) not a multiple of chunk_size the
\* container holds len(header) + ceil(len(P)/chunk_size + 1)*16 + len(P)
\* bytes (the quotient being the exact one), and with a multiple
\* len(header) + (len(P)/chunk_size + 1)*16 + len(P).
ContainerLengthSection6 ==
    w.err = ErrClosed =>
        LET n == Len(plain)
            cs == params.ChunkSize
        IN  Len(header) + Len(sink.dst) =
                IF n % cs # 0
                THEN Len(header) + CeilDiv(n + cs, cs) * Overhead + n
                ELSE Len(header) + ((n \div cs) + 1) * Overhead + n

\* C7, amended: with len(P) not a multiple of chunk_size the container holds
\* len(header) + ceil(len(P)/chunk_size)*16 + len(P) bytes, and with a
\* multiple len(header) + (len(P)/chunk_size + 1)*16 + len(P).
ContainerLengthSection6Amended ==
    w.err = ErrClosed =>
        LET n == Len(plain)
            cs == params.ChunkSize
        IN  Len(sink.dst) + Len(header) =
                IF n % cs # 0
                THEN Len(header) + CeilDiv(n, cs) * Overhead + n
                ELSE Len(header) + ((n \div cs) + 1) * Overhead + n

ContainerLengthOddPlaintext ==
    /\ w.err = ErrClosed
    /\ Len(plain) % params.ChunkSize # 0
    /\ Len(plain) > params.ChunkSize

\* C8. Terminal frame: a successful Close sends exactly one frame, the seal
\* of the buffer, len(buffer)+16 bytes long even when the buffer is empty;
\* after it the sink holds floor(len(P)/chunk_size)+1 frames, a single
\* 16-byte frame for empty P and a full frame with a 16-byte frame after it
\* for len(P) = chunk_size.
TerminalFrame ==
    /\ [][(w.err = Nil /\ w'.err = ErrClosed) =>
            /\ sink'.frames = Append(sink.frames, Len(w.buff) + Overhead)
            /\ sink'.dst = sink.dst \o Seal(sink.seals, w.key, w.nonce, w.buff).ciphertext
            /\ wret'.op = "Close" /\ wret'.err = Nil]_vars
    /\ [](w.err = ErrClosed =>
            /\ Len(sink.frames) = (Len(plain) \div params.ChunkSize) + 1
            /\ sink.frames = FramesFor(Len(plain), params.ChunkSize)
            /\ Sum(sink.frames) = Len(sink.dst)
            /\ (Len(plain) = 0 => sink.frames = <<Overhead>>)
            /\ (Len(plain) = params.ChunkSize =>
                    sink.frames = <<params.ChunkSize + Overhead, Overhead>>))

TerminalFrameEmpty ==
    /\ w.err = ErrClosed
    /\ wret.op = "Close"
    /\ Len(plain) = params.ChunkSize
    /\ sink.frames = <<params.ChunkSize + Overhead, Overhead>>

\* C9. Closed writer: after a successful Close, every Write (whatever its
\* input) and every Close returns the closed-writer error, sends nothing to
\* the sink and leaves nonce and buffer as they were.
ClosedWriter ==
    [][(w.err = ErrClosed /\ phase' = "writing") =>
            /\ w' = w
            /\ sink' = sink
            /\ wret'.err = ErrClosed
            /\ wret'.n = 0]_vars

ClosedWriterWrite ==
    /\ phase = "writing"
    /\ w.err = ErrClosed
    /\ wret.op = "Write"
    /\ wret.plen > 0
    /\ wret.err = ErrClosed

\* C10. Sticky end of stream: once the Reader holds io.EOF, every Read
\* returns 0 bytes and io.EOF and changes nothing, and once io.CopyN has come
\* back short (the last frame) the source is not read again.
StickyEndOfStream ==
    /\ [][r.err = EOF =>
            /\ r' = r
            /\ src' = src
            /\ out' = out
            /\ rret'.n = 0
            /\ rret'.err = EOF]_vars
    /\ [][src.short => src' = src]_vars

StickyEndOfStreamAgain ==
    /\ rret.latched
    /\ rret.plen > 0
    /\ rret.err = EOF
    /\ src.short
    /\ src.copies >= 2

\* C11. Writer error latching: a Write or Close that fails with the sink's
\* error or the nonce overflow leaves that error in the Writer, and from then
\* on every Write and Close returns it, sends nothing to the sink, seals
\* nothing and leaves the Writer as it was.
WriterErrorLatching ==
    /\ [][(w.err = Nil /\ wret'.err # Nil) =>
            /\ wret'.err \in {ErrSink, ErrOverflow}
            /\ w'.err = wret'.err]_vars
    /\ [][(w.err \in {ErrSink, ErrOverflow} /\ phase' = "writing") =>
            /\ w' = w
            /\ sink' = sink
            /\ wret'.err = w.err
            /\ wret'.n = 0]_vars

WriterErrorLatchingOverflow ==
    /\ w.err = ErrOverflow
    /\ wret.op = "Write"
    /\ wret.plen = 0
    /\ wret.err = ErrOverflow

\* C12. Reader error latching: a Read that fails with the authentication
\* error, the nonce overflow or the source's error returns 0 bytes and leaves
\* that error in the Reader, and from then on every Read returns 0 bytes and
\* that error and reads nothing from the source.
ReaderErrorLatching ==
    /\ [][(r.err = Nil /\ rret' # rret /\ rret'.err \notin {Nil, EOF}) =>
            /\ rret'.err \in {ErrOpen, ErrOverflow, ErrSource}
            /\ rret'.n = 0
            /\ out' = out
            /\ r'.err = rret'.err]_vars
    /\ [][(r.err \in {ErrOpen, ErrOverflow, ErrSource}) =>
            /\ r' = r
            /\ src' = src
            /\ out' = out
            /\ rret'.n = 0
            /\ rret'.err = r.err]_vars

ReaderErrorLatchingSource ==
    /\ r.err = ErrSource
    /\ rret.latched
    /\ rret.plen > 0
    /\ rret.err = ErrSource
    /\ Len(out) > 0

\* The buffer read as an unsigned big-endian integer.
RECURSIVE BigEndian(_)
BigEndian(b) ==
    IF Len(b) = 0 THEN 0
    ELSE BigEndian(Take(b, Len(b) - 1)) * ByteRange + b[Len(b)]

\* The number of 0xFF bytes the buffer ends with.
RECURSIVE TrailingFF(_)
TrailingFF(b) ==
    IF Len(b) = 0 \/ b[Len(b)] # ByteRange - 1 THEN 0
    ELSE 1 + TrailingFF(Take(b, Len(b) - 1))

\* C13. Nonce increment: on a buffer of n >= 1 bytes holding the big-endian
\* integer v, incNonce returns the overflow error exactly when every byte
\* was 0xFF, and otherwise returns no error and leaves v + 1 in the buffer:
\* the 0xFF bytes at the end become 0 and the byte before them goes up by
\* one. The integer is computed for the buffers whose value is below 2^31.
NonceIncrement ==
    call.op = "incNonce" =>
        LET in == call.in
            n == Len(in)
            k == TrailingFF(in)
            res == call.out
        IN  /\ Len(res.nonce) = n
            /\ res.err \in {Nil, ErrOverflow}
            /\ res.err = ErrOverflow <=> \A i \in 1..n : in[i] = ByteRange - 1
            /\ k < n =>
                /\ res.err = Nil
                /\ \A i \in 1..n :
                    res.nonce[i] = IF i < n - k THEN in[i]
                                   ELSE IF i = n - k THEN in[i] + 1
                                   ELSE 0
            /\ (8 * n < 31 /\ BigEndian(in) < (ByteRange ^ n) - 1) =>
                /\ res.err = Nil
                /\ BigEndian(res.nonce) = BigEndian(in) + 1

NonceIncrementCarry ==
    /\ call.op = "incNonce"
    /\ Len(call.in) = MaxNonceLen
    /\ TrailingFF(call.in) = MaxNonceLen - 1
    /\ call.out.err = Nil
    /\ BigEndian(call.out.nonce) = BigEndian(call.in) + 1

\* The sink holds a whole container: the frames of the bytes accepted, the
\* terminal one included, and nothing else.
WholeContainer ==
    /\ sink.frames = FramesFor(Len(plain), params.ChunkSize)
    /\ Sum(sink.frames) = Len(sink.dst)

\* The Reader was given all of a whole container by a source without fault.
WholeDelivery ==
    /\ phase = "reading"
    /\ attack.kind = "late"
    /\ attack.at = Len(sink.dst)
    /\ WholeContainer

\* C14, as stated: the overflow error is reported only when more frames were
\* processed than the counter has values. A Writer that has sealed at most
\* as many frames as there were values left (the terminal one included) has
\* no overflow error, and a Reader over a whole container of at most so many
\* frames returns its plaintext and then io.EOF.
NonceOverflowThreshold ==
    Len(sink.seals) > 0 =>
        /\ Len(sink.frames) <= NoncesLeft =>
                w.err # ErrOverflow /\ wret.err # ErrOverflow
        /\ (WholeDelivery /\ Len(sink.frames) <= NoncesLeft) =>
                /\ r.err \in {Nil, EOF}
                /\ rret.err \in {Nil, EOF}
                /\ IsPrefix(out, plain)
                /\ rret.err = EOF => out = plain

\* C14, amended: the overflow error is reported when as many frames were
\* processed as the counter has values. A Writer that has sealed fewer
\* frames than there were values left has no overflow error; the Write or
\* Close that seals the frame of the last value sends it to the sink and
\* fails with the overflow error. A Reader over a whole container of fewer
\* frames returns its plaintext and then io.EOF; over as many frames as there
\* were values left it returns at most the plaintext of the frames before
\* the last, fails with the overflow error when it opens the last, and
\* never returns io.EOF.
NonceOverflowThresholdAmended ==
    Len(sink.seals) > 0 =>
        /\ Len(sink.frames) <= NoncesLeft
        /\ w.err = ErrOverflow <=> Len(sink.frames) = NoncesLeft
        /\ wret.err = ErrOverflow => w.err = ErrOverflow
        /\ (WholeDelivery /\ Len(sink.frames) < NoncesLeft) =>
                /\ r.err \in {Nil, EOF}
                /\ rret.err \in {Nil, EOF}
                /\ IsPrefix(out, plain)
                /\ rret.err = EOF => out = plain
        /\ (WholeDelivery /\ Len(sink.frames) = NoncesLeft) =>
                /\ r.err \in {Nil, ErrOverflow}
                /\ rret.err \in {Nil, ErrOverflow}
                /\ IsPrefix(out, plain)
                /\ Len(out) <= (NoncesLeft - 1) * params.ChunkSize
                /\ r.err = ErrOverflow <=> src.copies = NoncesLeft

NonceOverflowAtLastValue ==
    /\ w.err = ErrOverflow
    /\ WholeDelivery
    /\ Len(sink.frames) = NoncesLeft
    /\ Len(sink.frames) >= 2
    /\ rret.err = ErrOverflow
    /\ Len(out) > 0

Exact(p) ==
    /\ p.ArgonTime < Huge
    /\ p.ArgonMemory < Huge
    /\ p.ChunkSize < Huge

\* C16. Header parse-then-marshal identity: when ParseHeader accepts a line,
\* MarshalHeader of the parameters it returns gives the bytes of that line,
\* line feed included.
ParseThenMarshal ==
    (call.op = "ParseHeader" /\ call.out.err = NoError /\ Exact(call.out.p)) =>
        /\ MarshalHeader(call.out.p).err = NoError
        /\ MarshalHeader(call.out.p).bytes = ReadString(call.in).line

\* A line accepted and written back otherwise.
ParseThenMarshalDiffers ==
    /\ call.op = "ParseHeader"
    /\ call.out.err = NoError
    /\ call.out.p.ArgonTime = ArgonTime
    /\ call.out.p.ChunkSize = 1
    /\ MarshalHeader(call.out.p).err = NoError
    /\ MarshalHeader(call.out.p).bytes = HeaderLine(HeaderBase)
    /\ call.in # HeaderLine(HeaderBase)
    /\ ReadString(call.in).rest = <<>>

\* The header grammar, read off a text: one line feed, at the end; six
\* fields; the type; unsigned decimals after v=, t=, m=, p=; base64 characters
\* after s=; a strictly positive decimal after b=.
IsDecimal(s) == Len(s) > 0 /\ \A i \in 1..Len(s) : IsDigit(s[i])

HasKey(part, key) == Len(part) >= 2 /\ part[1] = key /\ part[2] = "="

MatchesGrammar(text) ==
    /\ Len(text) > 0
    /\ text[Len(text)] = "\n"
    /\ \A i \in 1..(Len(text) - 1) : text[i] # "\n"
    /\ LET f == Split(Take(text, Len(text) - 1), "$")
       IN  /\ Len(f) = 6
           /\ f[1] = <<>>
           /\ f[2] = ArgonType
           /\ HasKey(f[3], "v") /\ IsDecimal(Drop(f[3], 2))
           /\ LET c == Split(f[4], ",")
              IN  /\ Len(c) = 3
                  /\ HasKey(c[1], "t") /\ IsDecimal(Drop(c[1], 2))
                  /\ HasKey(c[2], "m") /\ IsDecimal(Drop(c[2], 2))
                  /\ HasKey(c[3], "p") /\ IsDecimal(Drop(c[3], 2))
           /\ HasKey(f[5], "s")
           /\ \A i \in 3..Len(f[5]) : IsBase64(f[5][i])
           /\ HasKey(f[6], "b") /\ IsDecimal(Drop(f[6], 2))
           /\ \E i \in 3..Len(f[6]) : f[6][i] # "0"

\* What C17 says of MarshalHeader called on p, for salts of the lengths in
\* lens.
MarshalThenParseFor(lens) ==
    (/\ call.op = "MarshalHeader"
     /\ Check(call.in).err = NoError
     /\ Len(call.in.Salt.bytes) \in lens) =>
        LET m == call.out
            q == ParseHeader(m.bytes)
        IN  /\ m.err = NoError
            /\ m.p = Check(call.in).p
            /\ MatchesGrammar(m.bytes)
            /\ m.p.Salt.bytes # <<>> =>
                /\ q.err = NoError
                /\ ~q.nil
                /\ q.rest = <<>>
                /\ q.p = m.p
                /\ q.p.SaltSize = Len(m.p.Salt.bytes)
            /\ m.p.Salt.nil =>
                Split(Take(m.bytes, Len(m.bytes) - 1), "$")[5] = <<"s", "=">>

\* C17. Header marshal-then-parse identity: for every Params that passes
\* Check, MarshalHeader succeeds and writes one line of the header grammar;
\* when the salt is not empty, ParseHeader of that line succeeds and returns
\* the normalised parameters field by field, salt_size being the length of
\* the salt; when the salt is absent the line has an empty s= field.
MarshalThenParse == MarshalThenParseFor(0..(MaxSaltLen + 1))

\* The same for the salts shorter than MaxSaltLen.
MarshalThenParseShortSalt == MarshalThenParseFor(0..(MaxSaltLen - 1))

\* A salt of MaxSaltLen bytes marshalled and parsed back with salt_size 0.
MarshalThenParseWrappedSize ==
    /\ call.op = "MarshalHeader"
    /\ call.out.err = NoError
    /\ Len(call.in.Salt.bytes) = MaxSaltLen
    /\ ParseHeader(call.out.bytes).err = NoError
    /\ ParseHeader(call.out.bytes).p = call.out.p
    /\ ParseHeader(call.out.bytes).p.SaltSize = 0

\* What C18 says of a Check that succeeded, for the parameters whose salt is
\* nil or of a length in lens.
NormalisedFor(lens) ==
    (/\ call.op = "Check"
     /\ call.out.err = NoError
     /\ (call.in.Salt.nil \/ Len(call.in.Salt.bytes) \in lens)) =>
        LET in == call.in
            p == call.out.p
            kept(zero, default, before, after) ==
                after = IF before = zero THEN default ELSE before
        IN  /\ kept(<<>>, ArgonType, in.ArgonType, p.ArgonType)
            /\ kept(0, ArgonVersion, in.ArgonVersion, p.ArgonVersion)
            /\ kept(0, ArgonTime, in.ArgonTime, p.ArgonTime)
            /\ kept(0, ArgonMemory, in.ArgonMemory, p.ArgonMemory)
            /\ kept(0, ArgonThreads, in.ArgonThreads, p.ArgonThreads)
            /\ kept(0, ChunkSize, in.ChunkSize, p.ChunkSize)
            /\ in.Salt.nil => kept(0, SaltSize, in.SaltSize, p.SaltSize)
            /\ in.SaltSize # 0 => p.SaltSize = in.SaltSize
            /\ p.Salt = in.Salt
            /\ p.ArgonVersion > 0
            /\ p.ArgonTime > 0
            /\ p.ArgonMemory > 0
            /\ p.ArgonThreads > 0
            /\ p.SaltSize > 0
            /\ p.ChunkSize > 0
            /\ ~p.Salt.nil => p.SaltSize = Len(p.Salt.bytes)

\* C18. Normalisation postcondition: after Check succeeds, every zero field
\* holds its default and every other field is unchanged, every numeric field
\* is strictly positive, and a salt that is present has salt_size bytes, for
\* every salt length Check accepts, up to MaxSaltLen.
Normalised == NormalisedFor(0..MaxSaltLen)

\* The same for the salts of 1 to MaxSaltLen - 1 bytes.
NormalisedInRange == NormalisedFor(1..(MaxSaltLen - 1))

\* Check succeeded on a salt of MaxSaltLen bytes and left salt_size 0.
NormalisedWrappedSize ==
    /\ call.op = "Check"
    /\ call.out.err = NoError
    /\ Len(call.out.p.Salt.bytes) = MaxSaltLen
    /\ call.out.p.SaltSize = 0

\* What C19 says of Check, the constraints taken in the order Check tests
\* them, each when none before it is broken; tooShort is the set of lengths
\* for which a present salt is to be rejected as empty.
RejectionsFor(tooShort) ==
    call.op = "Check" =>
        LET in == call.in
            e == call.out.err
            typeBad == in.ArgonType # <<>> /\ in.ArgonType # ArgonType
            versionBad == in.ArgonVersion # 0 /\ in.ArgonVersion # ArgonVersion
            saltBad == /\ ~in.Salt.nil
                       /\ \/ Len(in.Salt.bytes) \in tooShort
                          \/ Len(in.Salt.bytes) > MaxSaltLen
            sizeBad == /\ ~in.Salt.nil
                       /\ in.SaltSize # 0
                       /\ in.SaltSize # Len(in.Salt.bytes)
            chunkBad == in.ChunkSize < 0
        IN  /\ typeBad => e = ErrArgonType
            /\ (~typeBad /\ versionBad) => e = ErrArgonVersion
            /\ (~typeBad /\ ~versionBad /\ saltBad) => e = ErrSalt
            /\ (~typeBad /\ ~versionBad /\ ~saltBad /\ sizeBad) =>
                e = ErrSaltSize
            /\ (~typeBad /\ ~versionBad /\ ~saltBad /\ ~sizeBad /\ chunkBad) =>
                e = ErrChunkSize
            /\ (~typeBad /\ ~versionBad /\ ~saltBad /\ ~sizeBad /\ ~chunkBad) =>
                e = NoError

\* C19. Normalisation rejections: Check returns ArgonType for a type that is
\* neither empty nor "argon2id", ArgonVersion for a version that is neither
\* 0 nor 19, Salt for a salt that is empty or longer than MaxSaltLen bytes,
\* SaltSize for a non-zero salt_size that is not the length of a present
\* salt, and ChunkSize for a chunk size below zero.
Rejections == RejectionsFor({0})

\* The same with the empty salt not counted as one to reject.
RejectionsButEmptySalt == RejectionsFor({})

\* Check succeeded on a salt that is present and empty.
EmptySaltAccepted ==
    /\ call.op = "Check"
    /\ ~call.in.Salt.nil
    /\ call.in.Salt.bytes = <<>>
    /\ call.in.SaltSize = 0
    /\ call.out.err = NoError

\* The fields of the first line of text, and its six "key=value" parts in
\* the order ParseHeader reads them.
HeaderArgs(text) ==
    Split(Take(ReadString(text).line, Len(ReadString(text).line) - 1), "$")

Unterminated(text) == ReadString(text).err # NoError

Misshapen(text) ==
    /\ ~Unterminated(text)
    /\ Len(HeaderArgs(text)) # 6 \/ HeaderArgs(text)[1] # <<>>

ThreeCosts(text) == Len(Split(HeaderArgs(text)[4], ",")) = 3

KeyedParts(text) ==
    LET f == HeaderArgs(text)
        c == Split(f[4], ",")
    IN  <<f[3], c[1], c[2], c[3], f[5], f[6]>>

PartKeys == <<"v", "t", "m", "p", "s", "b">>

\* One of the fields 2..5 lacks its key prefix.
LacksKey(text) ==
    /\ ~Unterminated(text)
    /\ ~Misshapen(text)
    /\ \/ ~ThreeCosts(text)
       \/ \E i \in 1..6 : ~HasKey(KeyedParts(text)[i], PartKeys[i])

\* Part i is read and refused with an error that does not match Parsing: a
\* number that is zero, a salt of no bytes.
Silent(text, i) ==
    LET part == KeyedParts(text)[i]
        bits == <<8, 32, 32, 8>>
        kinds == <<ErrArgonVersion, ErrArgonTime, ErrArgonMemory,
                   ErrArgonThreads>>
    IN  IF i <= 4
        THEN LET e == UintField(part, PartKeys[i], bits[i], kinds[i]).err
             IN  e # NoError /\ ~(ErrParsing \subseteq e)
        ELSE /\ i = 5
             /\ HasKey(part, PartKeys[i])
             /\ ~DecodeString(Drop(part, 2)).err
             /\ DecodeString(Drop(part, 2)).bytes = <<>>

SilentVersion(text) ==
    LET e == UintField(HeaderArgs(text)[3], "v", 8, ErrArgonVersion).err
    IN  e # NoError /\ ~(ErrParsing \subseteq e)

\* A field lacks its key prefix and ParseHeader gets to it: the type is not
\* empty and no part before it is refused with an error of its own.
FirstLack(text) ==
    /\ ~Unterminated(text)
    /\ ~Misshapen(text)
    /\ HeaderArgs(text)[2] # <<>>
    /\ \/ ~HasKey(HeaderArgs(text)[3], "v")
       \/ ~SilentVersion(text) /\ ~ThreeCosts(text)
       \/ /\ ThreeCosts(text)
          /\ \E i \in 1..6 :
                /\ ~HasKey(KeyedParts(text)[i], PartKeys[i])
                /\ \A j \in 1..(i - 1) : ~Silent(text, j)

\* C20. Header structure errors: ParseHeader fails with an error matching
\* Parsing when the source ends before a line feed, when the line does not
\* split on "$" into six fields, when the first field is not empty, or when
\* one of the fields 2..5 lacks its key prefix.
HeaderStructureErrors ==
    (/\ call.op = "ParseHeader"
     /\ Unterminated(call.in) \/ Misshapen(call.in) \/ LacksKey(call.in)) =>
        /\ call.out.nil
        /\ ErrParsing \subseteq call.out.err

\* C20 as the code has it: a missing key prefix gives Parsing when no field
\* before it is refused with an error of its own.
HeaderStructureErrorsAmended ==
    (/\ call.op = "ParseHeader"
     /\ Unterminated(call.in) \/ Misshapen(call.in) \/ FirstLack(call.in)) =>
        /\ call.out.nil
        /\ ErrParsing \subseteq call.out.err

\* The salt field without its key, every field before it well formed.
HeaderKeyMissing ==
    /\ call.op = "ParseHeader"
    /\ FirstLack(call.in)
    /\ ThreeCosts(call.in)
    /\ \A i \in 1..4 : HasKey(KeyedParts(call.in)[i], PartKeys[i])
    /\ ~HasKey(KeyedParts(call.in)[5], "s")
    /\ call.out.nil
    /\ call.out.err = ErrParsing

\* What the claims on the header's fields say of a text: that it is an
\* unsigned decimal of at most bits bits, and that it is a decimal of value 0.
InRange(rem, bits) ==
    IsDecimal(rem) /\ DigitsLeq(StripZeros(rem), MaxUintDigits(bits))

IsZero(rem) == IsDecimal(rem) /\ \A i \in 1..Len(rem) : rem[i] = "0"

PartBits == <<8, 32, 32, 8>>

PartKinds == <<ErrArgonVersion, ErrArgonTime, ErrArgonMemory, ErrArgonThreads>>

\* ParseHeader gets to part i of text: six fields, the type not empty, three
\* cost parts if i is one of them or comes after them, and every part before
\* i read without error.
Reached(text, i) ==
    /\ ~Unterminated(text)
    /\ ~Misshapen(text)
    /\ HeaderArgs(text)[2] # <<>>
    /\ i > 1 =>
        /\ UintField(HeaderArgs(text)[3], "v", 8, ErrArgonVersion).err = NoError
        /\ ThreeCosts(text)
        /\ \A j \in 2..(i - 1) :
            IF j <= 4
            THEN UintField(KeyedParts(text)[j], PartKeys[j], PartBits[j],
                           PartKinds[j]).err = NoError
            ELSE /\ HasKey(KeyedParts(text)[j], PartKeys[j])
                 /\ ~DecodeString(Drop(KeyedParts(text)[j], 2)).err
                 /\ DecodeString(Drop(KeyedParts(text)[j], 2)).bytes # <<>>

\* The part i of text ParseHeader gets to, the version being the third field.
PartAt(text, i) ==
    IF i = 1 THEN HeaderArgs(text)[3] ELSE KeyedParts(text)[i]

\* C21. Numeric header fields: for each of v, t, m, p that ParseHeader gets
\* to with its key prefix, a remainder that is not an unsigned decimal in
\* range makes ParseHeader fail with an error matching Parsing and the
\* field's kind, and a remainder of value zero makes it fail with the
\* field's kind.
NumericFields ==
    call.op = "ParseHeader" =>
        \A i \in 1..4 :
            (Reached(call.in, i) /\ HasKey(PartAt(call.in, i), PartKeys[i])) =>
                LET rem == Drop(PartAt(call.in, i), 2)
                IN  /\ ~InRange(rem, PartBits[i]) =>
                        /\ call.out.nil
                        /\ (ErrParsing \cup PartKinds[i]) \subseteq call.out.err
                    /\ IsZero(rem) =>
                        /\ call.out.nil
                        /\ call.out.err = PartKinds[i]

\* The same for the remainders without "=".
NumericFieldsOneEquals ==
    call.op = "ParseHeader" =>
        \A i \in 1..4 :
            (/\ Reached(call.in, i)
             /\ HasKey(PartAt(call.in, i), PartKeys[i])
             /\ Len(Split(PartAt(call.in, i), "=")) = 2) =>
                LET rem == Drop(PartAt(call.in, i), 2)
                IN  /\ ~InRange(rem, PartBits[i]) =>
                        /\ call.out.nil
                        /\ call.out.err = ErrParsing \cup PartKinds[i]
                    /\ IsZero(rem) =>
                        /\ call.out.nil
                        /\ call.out.err = PartKinds[i]

\* A version with "=" in its remainder refused with Parsing alone.
NumericFieldBareParsing ==
    /\ call.op = "ParseHeader"
    /\ Reached(call.in, 1)
    /\ HasKey(PartAt(call.in, 1), "v")
    /\ ~InRange(Drop(PartAt(call.in, 1), 2), 8)
    /\ call.out.err = ErrParsing

\* ParseHeader reads every field of text without error and gets to its
\* closing Check.
FieldsRead(text) ==
    /\ Reached(text, 6)
    /\ LET b == KeyedParts(text)[6]
       IN  /\ HasKey(b, "b")
           /\ Len(Split(b, "=")) = 2
           /\ ~ParseInt(Drop(b, 2)).err
           /\ ParseInt(Drop(b, 2)).val > 0

VersionOf(text) == UintField(HeaderArgs(text)[3], "v", 8, ErrArgonVersion).val

\* What C22 says, for the lines with a type other than "argon2id" that
\* satisfy rest.
UnsupportedFor(rest(_)) ==
    (call.op = "ParseHeader" /\ ~Unterminated(call.in) /\ ~Misshapen(call.in))
        =>
        /\ (HeaderArgs(call.in)[2] # ArgonType /\ rest(call.in)) =>
            call.out.err = ErrArgonType
        /\ (/\ HeaderArgs(call.in)[2] = ArgonType
            /\ FieldsRead(call.in)
            /\ VersionOf(call.in) # ArgonVersion) =>
                call.out.err = ErrArgonVersion
        /\ call.out.err = NoError =>
            /\ call.out.p.ArgonType = ArgonType
            /\ call.out.p.ArgonVersion = ArgonVersion

AnyRest(text) == TRUE

EmptyOrRead(text) == HeaderArgs(text)[2] = <<>> \/ FieldsRead(text)

\* C22. Unsupported KDF: ParseHeader fails with ArgonType when the type
\* field is empty or anything but "argon2id", and with ArgonVersion when the
\* version is a non-zero value other than 19 (found by the closing Check);
\* no parameters of another type or version are returned with success.
UnsupportedKDF == UnsupportedFor(AnyRest)

\* The same, the type being looked at when the fields after it are read
\* without error.
UnsupportedKDFWhenRead == UnsupportedFor(EmptyOrRead)

\* A type other than "argon2id" and an error that is not ArgonType.
UnsupportedTypeOtherError ==
    /\ call.op = "ParseHeader"
    /\ ~Unterminated(call.in)
    /\ ~Misshapen(call.in)
    /\ HeaderArgs(call.in)[2] = <<"a", "r", "g", "o", "n", "2", "i">>
    /\ call.out.err = ErrArgonVersion

\* Unpadded base64 of the standard alphabet: its characters only, and not
\* a last group of one.
ValidBase64(rem) ==
    /\ \A i \in 1..Len(rem) : IsBase64(rem[i])
    /\ Len(rem) % 4 # 1

\* What C23 says of a salt field ParseHeader gets to, for the remainders that
\* satisfy simple.
SaltFieldFor(simple(_)) ==
    (/\ call.op = "ParseHeader"
     /\ Reached(call.in, 5)
     /\ HasKey(KeyedParts(call.in)[5], "s")
     /\ simple(Drop(KeyedParts(call.in)[5], 2))) =>
        LET rem == Drop(KeyedParts(call.in)[5], 2)
            salt == DecodeString(rem).bytes
        IN  /\ ~ValidBase64(rem) =>
                /\ call.out.nil
                /\ (ErrParsing \cup ErrSalt) \subseteq call.out.err
            /\ (ValidBase64(rem) /\ Len(salt) = 0) =>
                /\ call.out.nil
                /\ call.out.err = ErrSalt
            /\ (ValidBase64(rem) /\ Len(salt) > MaxSaltLen) =>
                call.out.err = ErrSalt
            /\ call.out.err = NoError =>
                /\ call.out.p.Salt = SaltOf(salt)
                /\ call.out.p.SaltSize = Len(salt)

AnyText(rem) == TRUE

PlainSalt(rem) ==
    /\ \A i \in 1..Len(rem) : rem[i] \notin {"\r", "="}
    /\ Len(DecodeString(rem).bytes) # MaxSaltLen

\* C23. Salt field: when ParseHeader gets to a salt field that begins with
\* s=, a remainder that is not unpadded standard base64 makes it fail with an
\* error matching Parsing and Salt, a remainder that decodes to no bytes or
\* to more than MaxSaltLen bytes makes it fail with Salt, and on success the
\* salt returned is the decoded bytes and salt_size is its length.
SaltField == SaltFieldFor(AnyText)

\* The same for the remainders without carriage return and "=" that do not
\* decode to MaxSaltLen bytes.
SaltFieldPlain == SaltFieldFor(PlainSalt)

\* A salt text with a carriage return in it, accepted.
SaltFieldCarriageReturn ==
    /\ call.op = "ParseHeader"
    /\ Reached(call.in, 5)
    /\ HasKey(KeyedParts(call.in)[5], "s")
    /\ \E i \in 1..Len(KeyedParts(call.in)[5]) :
            KeyedParts(call.in)[5][i] = "\r"
    /\ call.out.err = NoError
    /\ call.out.p.Salt = SaltOf(<<7>>)

\* A signed 64-bit decimal: a sign or none, digits, -2^63 to 2^63 - 1; and
\* one that is zero or below.
Unsigned(rem) ==
    IF rem # <<>> /\ rem[1] \in {"+", "-"} THEN Tail(rem) ELSE rem

IsInt64(rem) ==
    /\ IsDecimal(Unsigned(rem))
    /\ \/ DigitsLeq(StripZeros(Unsigned(rem)), MaxUintDigits(63))
       \/ /\ rem[1] = "-"
          /\ StripZeros(Unsigned(rem)) =
                <<"9", "2", "2", "3", "3", "7", "2", "0", "3", "6",
                  "8", "5", "4", "7", "7", "5", "8", "0", "8">>

NotPositive(rem) == IsInt64(rem) /\ (rem[1] = "-" \/ IsZero(Unsigned(rem)))

\* What C24 says of a chunk-size field ParseHeader gets to, for the fields
\* that split on "=" into one of the numbers of parts.
ChunkSizeFieldFor(parts) ==
    call.op = "ParseHeader" =>
        /\ (/\ Reached(call.in, 6)
            /\ HasKey(KeyedParts(call.in)[6], "b")
            /\ Len(Split(KeyedParts(call.in)[6], "=")) \in parts) =>
                LET rem == Drop(KeyedParts(call.in)[6], 2)
                IN  /\ ~IsInt64(rem) =>
                        /\ call.out.nil
                        /\ (ErrParsing \cup ErrChunkSize) \subseteq call.out.err
                    /\ NotPositive(rem) =>
                        /\ call.out.nil
                        /\ call.out.err = ErrChunkSize
        /\ call.out.err = NoError => call.out.p.ChunkSize >= 1

\* C24. Chunk-size field: when ParseHeader gets to a chunk-size field that
\* begins with b=, a remainder that is not a signed 64-bit decimal makes it
\* fail with an error matching Parsing and ChunkSize, a value of zero or
\* below makes it fail with ChunkSize, and every header parsed with success
\* has a chunk size of 1 or more.
ChunkSizeField == ChunkSizeFieldFor(2..5)

\* The same for the remainders without "=".
ChunkSizeFieldOneEquals == ChunkSizeFieldFor({2})

\* A chunk size with "=" in its remainder refused with Parsing alone.
ChunkSizeBareParsing ==
    /\ call.op = "ParseHeader"
    /\ Reached(call.in, 6)
    /\ HasKey(KeyedParts(call.in)[6], "b")
    /\ ~IsInt64(Drop(KeyedParts(call.in)[6], 2))
    /\ call.out.err = ErrParsing

\* What C25 says of Key, a salt of one of the lengths in empty counting as
\* empty like the absent one.
SaltInstalledFor(empty) ==
    /\ (call.op = "Key" /\ call.out.err = NoError) =>
        LET before == call.in.params
            p == call.out.p
            wasEmpty == before.Salt.nil \/ Len(before.Salt.bytes) \in empty
        IN  /\ wasEmpty =>
                /\ ~p.Salt.nil
                /\ p.Salt.bytes = call.in.rd.buff
                /\ Len(p.Salt.bytes) = p.SaltSize
                /\ p.SaltSize >= 1
            /\ ~wasEmpty => p.Salt = before.Salt
            /\ call.out.key = IDKey(call.in.password, p.Salt.bytes,
                                    p.ArgonTime, p.ArgonMemory, p.ArgonThreads)
    /\ call.op = "KeyAgain" =>
        /\ call.out.err = NoError
        /\ call.out.key = call.in.before.key
        /\ call.out.p = call.in.before.p

SaltInstalledIfAbsent == SaltInstalledFor({})

RECURSIVE Bump(_, _)
Bump(nonce, i) == IF i = 0 THEN nonce ELSE Bump(incNonce(nonce).nonce, i - 1)

\* The nonce the Writer started from: that of its first seal.
FirstNonce == IF sink.seals = <<>> THEN w.nonce ELSE sink.seals[1].nonce

\* The nonce that counts i frames from zero, i below ByteRange.
NonceOf(i) == [k \in 1..NonceSize |-> IF k = NonceSize THEN i ELSE 0]

\* C26. Nonce equals frame index: while the Writer has no latched error its
\* nonce counter is the number of frames the sink took, frame i (from 0) is
\* sealed under nonce i, and in every execution, with sink errors and counter
\* overflow, no nonce seals two different frames.
NonceIsFrameIndex ==
    /\ w.err = Nil =>
        /\ w.nonce = Bump(FirstNonce, Len(sink.frames))
        /\ FirstNonce = ZeroNonce => w.nonce = NonceOf(Len(sink.frames))
        /\ Len(sink.seals) = Len(sink.frames)
    /\ Len(sink.seals) \in {Len(sink.frames), Len(sink.frames) + 1}
    /\ \A i \in 1..Len(sink.seals) :
        /\ sink.seals[i].nonce = Bump(FirstNonce, i - 1)
        /\ FirstNonce = ZeroNonce => sink.seals[i].nonce = NonceOf(i - 1)
    /\ \A i, j \in 1..Len(sink.seals) :
        sink.seals[i].nonce = sink.seals[j].nonce => i = j

\* The counter ran out after two frames or more, the last nonce used once.
NonceUsedOnceAtOverflow ==
    /\ w.err = ErrOverflow
    /\ Len(sink.frames) >= 2
    /\ Len(sink.seals) = Len(sink.frames)
    /\ w.nonce = ZeroNonce

\* The frames and the seals a step adds.
NewFrames == SubSeq(sink'.frames, Len(sink.frames) + 1, Len(sink'.frames))

NewSeals == SubSeq(sink'.seals, Len(sink.seals) + 1, Len(sink'.seals))

BufferInBounds(wr) ==
    /\ wr.err = Nil => Len(wr.buff) \in 0..(wr.chunkSize - 1)
    /\ Len(wr.buff) <= wr.chunkSize + Overhead

\* C27. Writer buffer invariant: between calls a Writer with no latched
\* error buffers 0 to chunk_size - 1 bytes; every frame Write emits carries
\* chunk_size plaintext bytes in chunk_size + 16 frame bytes, the frame Close
\* emits is shorter than chunk_size + 16, and the buffer never holds more
\* than chunk_size + 16 bytes.
WriterBuffer ==
    [][/\ BufferInBounds(w)
       /\ BufferInBounds(w')
       /\ wret'.op = "Write" =>
            /\ \A i \in 1..Len(NewFrames) :
                    NewFrames[i] = w.chunkSize + Overhead
            /\ \A i \in 1..Len(NewSeals) :
                    Len(NewSeals[i].plaintext) = w.chunkSize
       /\ wret'.op = "Close" =>
            /\ Len(NewFrames) <= 1
            /\ \A i \in 1..Len(NewFrames) :
                    /\ NewFrames[i] < w.chunkSize + Overhead
                    /\ NewFrames[i] = Len(w.buff) + Overhead
            /\ \A i \in 1..Len(NewSeals) :
                    Len(NewSeals[i].plaintext) < w.chunkSize]_vars

\* A Write into a half-full buffer that sent a frame and left a byte.
WriterBufferRefilled ==
    /\ wret.op = "Write"
    /\ wret.plen = 2
    /\ wret.err = Nil
    /\ w.chunkSize = 2
    /\ Len(w.buff) = 1
    /\ Len(sink.frames) >= 1
    /\ w.err = Nil

\* The errors a numeric part, the salt field and the chunk-size field can
\* end the parse with, and whether they do.
PartErrors(kind) == {ErrParsing, ErrParsing \cup kind, kind}

NumberBad(part, key, bits) ==
    ~HasKey(part, key) \/ ~InRange(Drop(part, 2), bits) \/ IsZero(Drop(part, 2))

SaltBad(part, tooLong) ==
    \/ ~HasKey(part, "s")
    \/ DecodeString(Drop(part, 2)).err
    \/ Len(DecodeString(Drop(part, 2)).bytes) = 0
    \/ tooLong /\ Len(DecodeString(Drop(part, 2)).bytes) > MaxSaltLen

ChunkBad(part) ==
    ~HasKey(part, "b") \/ ~IsInt64(Drop(part, 2)) \/ NotPositive(Drop(part, 2))

\* The errors of the first step of the parse that text violates, the steps
\* being structure, type, version, costs, salt, chunk size and normalisation;
\* {NoError} if it violates none. early: whether the comparison of the type
\* with "argon2id" and the upper limit of the salt belong to the steps of
\* their fields, or to the normalisation.
FirstViolation(text, early) ==
    IF Unterminated(text) THEN {ErrParsing \cup ErrEndOfInput}
    ELSE IF Misshapen(text) THEN {ErrParsing}
    ELSE LET f == HeaderArgs(text)
             c == Split(f[4], ",")
         IN  IF f[2] = <<>> \/ (early /\ f[2] # ArgonType)
             THEN {ErrArgonType}
             ELSE IF NumberBad(f[3], "v", 8) THEN PartErrors(ErrArgonVersion)
             ELSE IF Len(c) # 3 THEN {ErrParsing}
             ELSE IF NumberBad(c[1], "t", 32) THEN PartErrors(ErrArgonTime)
             ELSE IF NumberBad(c[2], "m", 32) THEN PartErrors(ErrArgonMemory)
             ELSE IF NumberBad(c[3], "p", 8) THEN PartErrors(ErrArgonThreads)
             ELSE IF SaltBad(f[5], early) THEN PartErrors(ErrSalt)
             ELSE IF ChunkBad(f[6]) THEN PartErrors(ErrChunkSize)
             ELSE IF f[2] # ArgonType THEN {ErrArgonType}
             ELSE IF VersionOf(text) # ArgonVersion THEN {ErrArgonVersion}
             ELSE IF SaltBad(f[5], TRUE) THEN {ErrSalt}
             ELSE {NoError}

\* C28. Parse error precedence: when a header line violates several steps of
\* the parse, ParseHeader reports the error of the first one (structure,
\* type, version, costs, salt, chunk size, normalisation); a type that is not
\* empty and not "argon2id" gives ArgonType whatever the other fields hold.
ParsePrecedence ==
    call.op = "ParseHeader" =>
        /\ call.out.err \in FirstViolation(call.in, TRUE)
        /\ (/\ ~Unterminated(call.in)
            /\ ~Misshapen(call.in)
            /\ HeaderArgs(call.in)[2] # ArgonType) =>
                call.out.err = ErrArgonType

\* The same with the type compared and the salt measured by the
\* normalisation, after the chunk size.
ParsePrecedenceTypeLast ==
    call.op = "ParseHeader" => call.out.err \in FirstViolation(call.in, FALSE)

\* A type that is not "argon2id" before a chunk size of zero: ChunkSize.
ParsePrecedenceTypeSkipped ==
    /\ call.op = "ParseHeader"
    /\ ~Unterminated(call.in)
    /\ ~Misshapen(call.in)
    /\ HeaderArgs(call.in)[2] \notin {<<>>, ArgonType}
    /\ Reached(call.in, 6)
    /\ NotPositive(Drop(KeyedParts(call.in)[6], 2))
    /\ call.out.err = ErrChunkSize

\* C29. Parse result is parameters or error, never both: ParseHeader returns
\* parameters and no error, or an error and nil, also when the failure is
\* found by the closing normalisation.
ParametersOrError ==
    call.op = "ParseHeader" =>
        \/ call.out.err = NoError /\ ~call.out.nil
        \/ call.out.err # NoError /\ call.out.nil

\* The same for the failures found before the closing normalisation; those
\* it finds come with the parameters.
ParametersOrErrorBeforeCheck ==
    call.op = "ParseHeader" =>
        /\ call.out.err = NoError => ~call.out.nil
        /\ call.out.err # NoError => (call.out.nil <=> ~FieldsRead(call.in))

\* A version of 18 refused with ArgonVersion and the parameters returned.
ParametersWithError ==
    /\ call.op = "ParseHeader"
    /\ call.out.err = ErrArgonVersion
    /\ ~call.out.nil
    /\ call.out.p.ArgonVersion = 18
    /\ call.out.p.Salt = SaltOf(<<7>>)

\* The places of the line feeds in text.
LineFeeds(text) == {i \in 1..Len(text) : text[i] = "\n"}

\* C30. Exact header consumption: when ParseHeader returns, with success or
\* with a failure found after the line was read, what it took from the
\* reader is the bytes up to the first line feed and that line feed, and the
\* reader's next byte is the first byte after it.
ExactConsumption ==
    (call.op = "ParseHeader" /\ LineFeeds(call.in) # {}) =>
        \E k \in LineFeeds(call.in) :
            /\ \A j \in LineFeeds(call.in) : k <= j
            /\ call.out.rest = Drop(call.in, k)
            /\ call.in = Take(call.in, k) \o call.out.rest

\* A header parsed with the bytes after its line feed left in the reader.
BodyLeftInReader ==
    /\ call.op = "ParseHeader"
    /\ call.out.err = NoError
    /\ call.out.rest = <<"z", "\n", "$">>
    /\ Len(call.in) = Len(HeaderLine(HeaderBase)) + 3

\* The frames at the head of the sink that a Reader of DeliverLate opens
\* without error: all there in what the source holds, read in full or from a
\* source that ends with io.EOF, and sealed before the counter's last value.
GoodFrames ==
    {j \in 1..Len(sink.frames) :
        \A i \in 1..j :
            /\ Sum(Take(sink.frames, i)) <= attack.at
            /\ i < NoncesLeft
            /\ ~(attack.kind = "broken"
                    /\ sink.frames[i] < params.ChunkSize + Overhead)}

\* The plaintext of those frames that Read has not returned yet.
RemainingPlaintext ==
    Sum([j \in 1..Cardinality(GoodFrames) |-> sink.frames[j] - Overhead])
        - Len(out)

\* The frames the Reader opens end with the terminal frame of the container.
EndsWithTerminalFrame ==
    /\ w.err = ErrClosed
    /\ Cardinality(GoodFrames) = Len(sink.frames)

Below(x, y) ==
    \E i \in 1..Limbs : x[i] < y[i] /\ \A j \in 1..(i - 1) : x[j] = y[j]

\* C32. Buffer capacity arithmetic: for every chunk size that ParseHeader
\* and Check accept, the capacity chunk_size + 16 of NewWriter and NewReader
\* and the frame length chunk_size + 16 of readChunk are positive and have
\* not wrapped around in signed 64-bit arithmetic.
CapacityArithmetic ==
    call.op \in {"NewWriter", "NewReader", "readChunk"} =>
        /\ ~Negative(call.out.n)
        /\ Below(call.in.chunkSize, call.out.n)
        /\ ~call.out.panic

\* The same for the chunk sizes up to 2^63 - 17.
CapacityArithmeticBelowWrap ==
    (/\ call.op \in {"NewWriter", "NewReader", "readChunk"}
     /\ ~Negative(MulAdd(call.in.chunkSize, 1, Overhead))) =>
        /\ Below(call.in.chunkSize, call.out.n)
        /\ call.out.n[Limbs] = (call.in.chunkSize[Limbs] + Overhead) % LimbBase
        /\ ~call.out.panic

\* NewWriter on the chunk size 2^63 - 1: the capacity is -2^63 + 15 and Grow
\* panics.
CapacityWrapped ==
    /\ call.op = "NewWriter"
    /\ call.in.text = MaxInt64Head \o FormatUint(MaxInt64Tail)
    /\ call.in.chunkSize =
            <<LimbBase \div 2 - 1, LimbBase - 1, LimbBase - 1, LimbBase - 1>>
    /\ call.out.n = <<LimbBase \div 2, 0, 0, Overhead - 1>>
    /\ call.out.panic

\* The fields of Params in the order Check examines them; salt and salt size
\* are examined together.
CheckOrder ==
    <<{"ArgonType"}, {"ArgonVersion"}, {"Salt", "SaltSize"}, {"ArgonTime"},
      {"ArgonMemory"}, {"ArgonThreads"}, {"ChunkSize"}>>

\* The place in CheckOrder of the field an error is about.
Offending(err) ==
    IF err = ErrArgonType THEN 1
    ELSE IF err = ErrArgonVersion THEN 2
    ELSE IF err \in {ErrSalt, ErrSaltSize} THEN 3
    ELSE 7

\* What normalisation puts into a field that holds zero.
DefaultOf(p, f) ==
    IF f = "ArgonType" THEN ArgonType
    ELSE IF f = "ArgonVersion" THEN ArgonVersion
    ELSE IF f = "SaltSize"
    THEN IF p.Salt.nil THEN SaltSize ELSE Len(p.Salt.bytes) % ByteRange
    ELSE IF f = "ArgonTime" THEN ArgonTime
    ELSE IF f = "ArgonMemory" THEN ArgonMemory
    ELSE IF f = "ArgonThreads" THEN ArgonThreads
    ELSE IF f = "ChunkSize" THEN ChunkSize
    ELSE p.Salt

IsZeroField(p, f) ==
    IF f = "ArgonType" THEN p.ArgonType = <<>>
    ELSE IF f = "Salt" THEN FALSE
    ELSE p[f] = 0

\* C33. Failed normalisation changes earlier fields only: when Check returns
\* an error, the field the error is about and the fields Check examines
\* after it (order: type, version, salt and salt size, time, memory,
\* threads, chunk size) are as they were, and a field examined before it is
\* as it was or was zero and holds its normalised value.
FailedNormalisation ==
    (call.op = "Check" /\ call.out.err # NoError) =>
        LET k == Offending(call.out.err)
        IN  /\ call.out.err \in {ErrArgonType, ErrArgonVersion, ErrSalt,
                                 ErrSaltSize, ErrChunkSize}
            /\ \A i \in k..Len(CheckOrder) : \A f \in CheckOrder[i] :
                    call.out.p[f] = call.in[f]
            /\ \A i \in 1..(k - 1) : \A f \in CheckOrder[i] :
                    \/ call.out.p[f] = call.in[f]
                    \/ /\ IsZeroField(call.in, f)
                       /\ call.out.p[f] = DefaultOf(call.in, f)

\* Check rejected the chunk size after it had set the type, the version, the
\* salt size and the costs.
FailedAfterDefaults ==
    /\ call.op = "Check"
    /\ call.in = [ZeroParams EXCEPT !.ChunkSize = 0 - 1]
    /\ call.out.err = ErrChunkSize
    /\ call.out.p = [ArgonVersion |-> ArgonVersion, ArgonType |-> ArgonType,
                     SaltSize |-> SaltSize, Salt |-> NilSalt,
                     ArgonTime |-> ArgonTime, ArgonMemory |-> ArgonMemory,
                     ArgonThreads |-> ArgonThreads, ChunkSize |-> 0 - 1]

\* C34. Pipeline termination: in every interleaving of the source reader, the
\* transformer and the sink writer, whatever each source read, transform
\* call and sink write comes to, the three goroutines end and process
\* returns; none stays blocked on a channel after another has gone.
PipelineTerminates ==
    (pipe.mode # "none") ~> (pipe.mode # "none" /\ pipe.returned)

\* The source reader blocked in its send on chanIn after the transformer
\* returned an error: the transformer's deferred close(read) let the source
\* reader pass the context check before the group cancelled the context.
SourceReaderStuck ==
    /\ Running
    /\ pipe.pc.R = "send"
    /\ pipe.pc.T = "done"
    /\ pipe.pc.W = "done"
    /\ pipe.err.T = ErrOpen
    /\ pipe.groupErr = ErrOpen

\* The transformer blocked in its send on chanOut after the sink writer
\* returned an error.
TransformerStuck ==
    /\ Running
    /\ pipe.pc.T = "sendOut"
    /\ pipe.pc.W = "done"
    /\ pipe.pc.R = "done"
    /\ pipe.err.W = ErrSink

\* While process has not returned, some goroutine or the group can take a
\* step, as long as every failed stage was seen by the others at their next
\* context check.
PipelineTerminatesUnlessRaced ==
    (Running /\ ~ENABLED NextPipe) =>
        \/ pipe.pc.R = "send" /\ pipe.pc.T = "done" /\ pipe.err.T # Nil
        \/ pipe.pc.T = "sendOut" /\ pipe.pc.W = "done" /\ pipe.err.W # Nil

\* C35. Pipeline buffer hand-off: the source reader is never in a read into
\* the input buffer while the transformer holds the block it received and
\* has not finished p on it, and the transformer is never in p, which writes
\* the output buffer, while the sink writer holds the previous output and
\* has not finished writing it.
BufferHandOff ==
    pipe.mode # "none" =>
        /\ pipe.pc.R = "reading" => pipe.pc.T \notin {"check", "transform"}
        /\ pipe.pc.T = "transform" => pipe.pc.W \notin {"check", "writing"}

\* The source reader reads the third block while the sink writer writes the
\* output of the second.
ReadingWhileWriting ==
    /\ Running
    /\ pipe.pc.R = "reading"
    /\ pipe.pc.T = "waitWritten"
    /\ pipe.pc.W = "writing"
    /\ Len(pipe.reads) = 2
    /\ Len(pipe.writes) = 1

\* process returned nil and no source read, transform call or sink write
\* failed.
ErrorFreeRun ==
    /\ pipe.mode # "none"
    /\ pipe.returned
    /\ pipe.ret = Nil
    /\ pipe.failed = <<>>

\* Every block the source returned went through p once and its output
\* through dst.Write once, in the order of the reads, block i (from 0) under
\* the nonce i steps from the first.
InOrder ==
    /\ pipe.inputs = [i \in 1..Len(pipe.reads) |-> pipe.reads[i].data]
    /\ Len(pipe.outputs) = Len(pipe.inputs)
    /\ pipe.writes = pipe.outputs
    /\ pipe.dst = Concat(pipe.outputs)
    /\ \A i \in 1..Len(pipe.inputs) :
        /\ pipe.nonces[i] = Bump(pipe.first, i - 1)
        /\ pipe.outputs[i] =
             IF pipe.mode = "Encrypt"
             THEN Seal(pipe.seals, pipe.key, pipe.nonces[i],
                       pipe.inputs[i]).ciphertext
             ELSE Open(pipe.seals, pipe.key, pipe.nonces[i],
                       pipe.inputs[i]).plaintext

\* C36. Pipeline ordering: in every error-free run of process, every block
\* returned by a source read is transformed exactly once and its output is
\* written to the sink exactly once, the outputs reach the sink in the order
\* of the reads, and the transform, and so the nonce, is applied in that
\* order.
PipelineOrdering == ErrorFreeRun => InOrder

\* The same for the runs in which every read that returned bytes returned
\* them with a nil error.
PipelineOrderingNilReads ==
    (ErrorFreeRun /\ \A i \in 1..Len(pipe.reads) : pipe.reads[i].err = Nil)
        => InOrder

\* Encrypt returned nil with nothing sent to the sink: the source returned
\* its bytes together with io.EOF.
LastBlockDropped ==
    /\ ErrorFreeRun
    /\ pipe.mode = "Encrypt"
    /\ pipe.given # <<>>
    /\ Len(pipe.reads) = 1
    /\ pipe.reads[1] = [data |-> pipe.given, err |-> EOF]
    /\ pipe.inputs = <<>>
    /\ pipe.dst = <<>>

\* The elements of a sequence.
Range(s) == {s[i] : i \in 1..Len(s)}

ReaderResult(key, chunkSize, first, body, seals) ==
    LET r0 == [NewReader(key, chunkSize) EXCEPT !.nonce = first]
        a == Read(r0, NewSource(body, FALSE, seals), MaxPlain + 1)
        b == Read(a.r, a.src, 1)
    IN  [data |-> a.data, err |-> IF a.err # Nil THEN a.err ELSE b.err]

\* What C38 says of a run of process that has returned, on a source and a
\* sink without fault of their own.
EquivalentToCodec ==
    IF pipe.mode = "Encrypt"
    THEN LET b == WriterBody(pipe.key, pipe.chunkSize, pipe.first, pipe.given)
         IN  /\ pipe.ret = Nil <=> b.err = Nil
             /\ pipe.ret = Nil => pipe.dst = b.io.dst
    ELSE LET rd == ReaderResult(pipe.key, pipe.chunkSize, pipe.first,
                                pipe.given, pipe.seals)
         IN  /\ pipe.ret = Nil <=> rd.err = EOF
             /\ pipe.ret = Nil => pipe.dst = rd.data

FaultlessEnds ==
    /\ pipe.mode # "none"
    /\ pipe.returned
    /\ ~pipe.bad
    /\ ErrSink \notin Range(pipe.failed)

\* C38. Pipeline equivalence with the streaming codec: for every plaintext
\* and every behaviour of the source (short reads, bytes returned together
\* with io.EOF), Encrypt sends to its sink the frames that Write followed by
\* Close sends, the terminal frame included, and Decrypt accepts the bodies
\* the Reader accepts and gives their plaintext.
PipelineEquivalence == FaultlessEnds => EquivalentToCodec

\* The same for a source that holds a number of bytes that is no multiple of
\* the input buffer's size and returns them buffer by buffer with nil
\* errors.
PipelineEquivalenceLastBlockShort ==
    (/\ FaultlessEnds
     /\ Len(pipe.given) % pipe.buffInSize # 0
     /\ \A i \in 1..Len(pipe.reads) :
            /\ pipe.reads[i].err = Nil
            /\ Len(pipe.reads[i].data) =
                    min(pipe.buffInSize,
                        Len(pipe.given) - (i - 1) * pipe.buffInSize))
        => EquivalentToCodec

\* Encrypt of the empty plaintext returned nil and sent nothing; the Writer
\* sends the terminal frame of 16 bytes.
NoTerminalFrame ==
    /\ FaultlessEnds
    /\ pipe.mode = "Encrypt"
    /\ pipe.given = <<>>
    /\ pipe.ret = Nil
    /\ pipe.dst = <<>>
    /\ Len(WriterBody(pipe.key, pipe.chunkSize, pipe.first,
                      pipe.given).io.dst) = Overhead

\* The plaintexts the Writer sealed, in the order of the frames.
SealedPlaintext(n) == Concat([j \in 1..n |-> src.seals[j].plaintext])

\* The plaintext the Reader holds for the Read calls to come.
HeldPlaintext == IF r.err \in {Nil, EOF} THEN r.buff ELSE <<>>

\* Frame i (from 1) of the bytes one Read call takes from the source.
TakenFrame(i) ==
    LET taken == Take(src.data, Len(src.data) - Len(src'.data))
        size == r.chunkSize + Overhead
    IN  SubSeq(taken, (i - 1) * size + 1, min(i * size, Len(taken)))

\* C39. Released plaintext is authenticated: every plaintext byte a Reader
\* returns comes from a frame that opened under the nonce equal to the
\* frame's index, and the bytes returned so far, before any failure and after
\* it, are a prefix of the original plaintext; a failure leaves what was
\* returned of the frames before the bad or missing one as it is.
ReleasedAuthenticated ==
    /\ [](phase = "reading" =>
            LET opened == r.nonce[NonceSize]
            IN  /\ r.nonce = NonceOf(opened)
                /\ opened <= Len(src.seals)
                /\ src.copies \in {opened, opened + 1}
                /\ r.err \in {Nil, EOF} => src.copies = opened
                /\ \A j \in 1..opened :
                    /\ src.seals[j].key = r.key
                    /\ src.seals[j].nonce = NonceOf(j - 1)
                /\ IsPrefix(out, SealedPlaintext(opened))
                /\ r.err \in {Nil, EOF} =>
                    out \o HeldPlaintext = SealedPlaintext(opened)
                /\ IsPrefix(out, SealedPlaintext(Len(src.seals)))
                /\ w.err \in {Nil, ErrClosed} => IsPrefix(out, plain))
    /\ [][(phase = "reading" /\ phase' = "reading") =>
            LET k == src'.copies - src.copies
                opens(i) == Open(src.seals, r.key, NonceOf(src.copies + i - 1),
                                 TakenFrame(i))
            IN  /\ IsPrefix(out, out')
                /\ \E m \in 0..k :
                    /\ \A i \in 1..m : opens(i).err = Nil
                    /\ IsPrefix(SubSeq(out', Len(out) + 1, Len(out')),
                                HeldPlaintext
                                    \o Concat([i \in 1..m |-> opens(i).plaintext]))
                    /\ m < k => r'.err # Nil /\ rret'.n = 0]_vars

\* The Reader returned the plaintext of the first frame and then reported the
\* failure of the second, which the body, cut short, has only in part.
ReleasedBeforeFailure ==
    /\ phase = "reading"
    /\ attack.kind = "truncate"
    /\ w.err = ErrClosed
    /\ Len(sink.frames) >= 2
    /\ src.copies = 2
    /\ rret.err = ErrOpen
    /\ out = Take(plain, params.ChunkSize)
    /\ Len(out) < Len(plain)

\* The frames the Writer of package crypto sealed, one after the other.
CryptoFrames ==
    Concat([j \in 1..Len(cw.io.seals) |->
              Ciphertext(j, cw.io.seals[j].plaintext)])

\* Close has just returned nil.
CryptoClosed == cw.made /\ cw.ret.op = "Close" /\ cw.ret.err = Nil

\* The sink holds the header, once, and the frames behind it.
HeaderThenFrames == cw.io.dst = cw.header \o CryptoFrames

\* C40. Header written once before any frame (Writer of package crypto):
\* after every sequence of Write and Close calls that ends with a Close that
\* returned nil, the sink holds the header bytes once, in front of the first
\* frame, also when Close was called with no Write before it.
HeaderWrittenOnce == CryptoClosed => HeaderThenFrames

\* C40, with a Write before the Close. Any Write call, of no bytes too, that
\* finds no latched error writes the header before it does anything else.
HeaderWrittenOnceAfterWrite == (CryptoClosed /\ cw.wrote) => HeaderThenFrames

\* Encrypt on an empty source: io.Copy calls Write not once, Close returns
\* nil, and the sink holds the terminal frame and no header.
ClosedWithoutHeader ==
    /\ CryptoClosed
    /\ cw.copy
    /\ ~cw.wrote
    /\ Len(cw.header) > 0
    /\ ~cw.w.argonHeader.nil
    /\ Len(cw.io.seals) = 1
    /\ cw.io.dst = Ciphertext(1, <<>>)

====
